---------------------------- MODULE Spec2Model ----------------------------
(***************************************************************************)
(* Jakarta traffic big-data pipeline: the shared traffic model (condition, *)
(* speed, peak hour), the real-time simulation engine, the historical      *)
(* data generator, the SQLite persistence layer and the analytics queries. *)
(*                                                                         *)
(* Units.  Time is in ticks since an epoch that is a Monday 00:00:00.     *)
(* rain_factor is in tenths (1.3 -> 13).  speed_kmh is in tenths of a km/h *)
(* (5.0 -> 50), with intermediate values in thousandths.  The random       *)
(* factors of random.uniform are in hundredths (0.8 -> 80).                *)
(***************************************************************************)
EXTENDS Integers, Sequences, FiniteSets, TLC

VARIABLES
    call,             \* the last call of a pure function of the traffic model
    now,              \* datetime.now(), in ticks
    rng,              \* state of the random module's generator
    traffic_data,     \* table traffic_data, in rowid order
    weather_data,     \* table weather_data, in rowid order
    traffic_seq,      \* AUTOINCREMENT counter of traffic_data
    weather_seq,      \* AUTOINCREMENT counter of weather_data
    e_pc,             \* position of the operation that is running, or "idle"
    weather_list,     \* run_simulation_cycle / fetch_and_save: weather fetched
    traffic_records,  \* run_simulation_cycle: readings simulated so far
    e_i,              \* run_simulation_cycle: index of the location being handled
    e_ret,            \* the list the last completed cycle returned
    e_status,         \* how the operation ended: "returned", "raised",
                      \* "inserted" or "cleared"; "none" before it has
    api_down,         \* locations for which get_weather returned None in this cycle
    result,           \* the value returned by the last analytics query
    historical_days,  \* config.HISTORICAL_DAYS of this installation
    g_pc,             \* position of generate_historical_data, or "idle";
                      \* "insert_raised" while an exception of
                      \* insert_traffic_data is in flight, "raised" once it
                      \* has left generate_historical_data,
                      \* "weather_raised" once an exception of a weather
                      \* chunk's write has
    g_now,            \* generate_historical_data: its local "now"
    current_date,     \* generate_historical_data: the day being walked
    traffic_batch,    \* generate_historical_data: records not yet inserted
    weather_batch,    \* generate_historical_data: weather records collected
    total_expected,   \* generate_historical_data: the announced target
    count,            \* generate_historical_data: records generated so far
    g_i,              \* generate_historical_data: start of the next weather chunk
    total_traffic,    \* generate_historical_data: get_traffic_count() of the summary
    total_weather,    \* generate_historical_data: get_weather_count() of the summary
    sessions          \* app.py: per browser session, st.session_state and the
                      \* position and locals of its run of initialize

modelVars  == <<call>>
dbVars     == <<traffic_data, weather_data, traffic_seq, weather_seq>>
engineVars ==
    <<e_pc, weather_list, traffic_records, e_i, e_ret, e_status, api_down>>
genVars ==
    <<historical_days, g_pc, g_now, current_date, traffic_batch, weather_batch,
      total_expected, count, g_i, total_traffic, total_weather>>
appVars    == <<sessions>>
vars ==
    <<call, now, rng, traffic_data, weather_data, traffic_seq, weather_seq,
      e_pc, weather_list, traffic_records, e_i, e_ret, e_status, api_down,
      result, historical_days, g_pc, g_now, current_date, traffic_batch,
      weather_batch, total_expected, count, g_i, total_traffic, total_weather,
      sessions>>

---------------------------------------------------------------------------
(* Bounds of the model *)

TicksPerSecond == 2          \* resolution of the clock below one second
NumLocations == 2            \* how many of the configured LOCATIONS are in use
MaxTrafficSeq == 4           \* traffic rows ever inserted (AUTOINCREMENT ids)
RngModulus == 4              \* number of states of the random generator
MaxVehicleCount == 10001     \* vehicle counts classified: 0..MaxVehicleCount
MaxSpeedVehicles == 700      \* vehicle counts given to calculate_speed
MaxRainFactor == 20          \* rain factors given to calculate_speed: 1.0..2.0

\* The values random.uniform(-3, 3) is taken to return, in thousandths.
Perturbations == <<-3000, -1500, 0, 1500, 3000>>
\* The values random.uniform(0.8, 1.2) is taken to return, in hundredths.
LocationVariances == <<80, 93, 100, 120>>
\* The values of random.uniform(0.6, 0.85) (weekend) and (0.9, 1.1) (weekday).
WeekendVariances == <<60, 85>>
WeekdayVariances == <<90, 110>>

SeqRange(q) == {q[i] : i \in 1..Len(q)}

---------------------------------------------------------------------------
(* config.py *)

\* The keys of LOCATIONS, in insertion order.
LOCATIONS_KEYS ==
    <<"Jakarta Pusat", "Jakarta Selatan", "Jakarta Utara", "Jakarta Timur",
      "Jakarta Barat">>

\* The configured locations in use, in the order "for location in LOCATIONS"
\* visits them: the last NumLocations keys.
LOCATIONS ==
    SubSeq(LOCATIONS_KEYS, Len(LOCATIONS_KEYS) - NumLocations + 1,
           Len(LOCATIONS_KEYS))

LocationSet == {LOCATIONS[i] : i \in 1..Len(LOCATIONS)}

\* HISTORICAL_DAYS and DATA_INTERVAL_MINUTES
HISTORICAL_DAYS == 30
DATA_INTERVAL_MINUTES == 5

PEAK_MORNING == [start |-> 6, end |-> 9]
PEAK_EVENING == [start |-> 16, end |-> 19]

VEHICLE_PATTERN ==
    <<50, 40, 35, 30, 40, 80, 200, 350, 400, 250, 180, 200,
      220, 200, 180, 200, 300, 420, 380, 250, 180, 150, 120, 80>>

\* VEHICLE_PATTERN.get(hour, 100)
VehiclePatternGet(hour) ==
    IF hour \in 0..23 THEN VEHICLE_PATTERN[hour + 1] ELSE 100

RainCategories == <<"none", "light", "moderate", "heavy", "extreme">>

\* The table with 0.3 typed for the 1.3 of light rain
RainImpactLightTypo ==
    [c \in {"none", "light", "moderate", "heavy", "extreme"} |->
        CASE c = "none" -> 10
          [] c = "light" -> 3
          [] c = "moderate" -> 16
          [] c = "heavy" -> 18
          [] c = "extreme" -> 20]

RAIN_IMPACT ==
    [c \in {"none", "light", "moderate", "heavy", "extreme"} |->
        CASE c = "none" -> 10
          [] c = "light" -> 13
          [] c = "moderate" -> 16
          [] c = "heavy" -> 18
          [] c = "extreme" -> 20]

\* RAIN_IMPACT.get(rain_cat, 1.0)
RainImpactGet(rain_cat) ==
    IF rain_cat \in DOMAIN RAIN_IMPACT THEN RAIN_IMPACT[rain_cat] ELSE 10

\* The dict in insertion order, which is the order .items() iterates in.
TRAFFIC_THRESHOLDS ==
    << <<"Lancar", 0, 100>>,
       <<"Sedang", 100, 200>>,
       <<"Padat", 200, 350>>,
       <<"Sangat Padat", 350, 500>>,
       <<"Macet", 500, 9999>> >>

---------------------------------------------------------------------------
(* The shared traffic model: traffic_engine.py and data_generator.py *)

Max(a, b) == IF a >= b THEN a ELSE b
Min(a, b) == IF a <= b THEN a ELSE b

\* A peak test whose bands include their end hour: start <= hour <= end.
IsPeakHourInclusiveEnd(hour) ==
    \/ (PEAK_MORNING.start <= hour /\ hour <= PEAK_MORNING.end)
    \/ (PEAK_EVENING.start <= hour /\ hour <= PEAK_EVENING.end)

\* TrafficEngine.is_peak_hour
is_peak_hour(hour) ==
    LET is_morning_peak == PEAK_MORNING.start <= hour /\ hour < PEAK_MORNING.end
        is_evening_peak == PEAK_EVENING.start <= hour /\ hour < PEAK_EVENING.end
    IN  is_morning_peak \/ is_evening_peak

\* The generator's inline test: 1 if (6 <= hour <= 8 or 16 <= hour <= 18) else 0
GenIsPeak(hour) ==
    IF (6 <= hour /\ hour <= 8) \/ (16 <= hour /\ hour <= 18) THEN 1 ELSE 0

\* The for loop over TRAFFIC_THRESHOLDS.items(), from the i-th item on.
RECURSIVE ScanThresholds(_, _)
ScanThresholds(vehicle_count, i) ==
    IF i > Len(TRAFFIC_THRESHOLDS) THEN "Macet"
    ELSE IF TRAFFIC_THRESHOLDS[i][2] <= vehicle_count
            /\ vehicle_count < TRAFFIC_THRESHOLDS[i][3]
         THEN TRAFFIC_THRESHOLDS[i][1]
         ELSE ScanThresholds(vehicle_count, i + 1)

\* A scan that tests low <= v <= high: the band's upper bound taken as inclusive.
RECURSIVE ScanThresholdsInclusive(_, _)
ScanThresholdsInclusive(vehicle_count, i) ==
    IF i > Len(TRAFFIC_THRESHOLDS) THEN "Macet"
    ELSE IF TRAFFIC_THRESHOLDS[i][2] <= vehicle_count
            /\ vehicle_count <= TRAFFIC_THRESHOLDS[i][3]
         THEN TRAFFIC_THRESHOLDS[i][1]
         ELSE ScanThresholdsInclusive(vehicle_count, i + 1)

GetTrafficConditionInclusive(vehicle_count) ==
    ScanThresholdsInclusive(vehicle_count, 1)

\* TrafficEngine.get_traffic_condition
get_traffic_condition(vehicle_count) == ScanThresholds(vehicle_count, 1)

\* DataGenerator.get_condition
get_condition(vehicle_count) == ScanThresholds(vehicle_count, 1)

\* round(speed, 1): thousandths to the nearest tenth
Round1(milli) == (milli + 50) \div 100

\* calculate_speed without the upper clamp
CalculateSpeedNoUpperClamp(vehicle_count, rain_factor, perturbation) ==
    LET s1 == 60000 - vehicle_count * 100
        s2 == (s1 * 10) \div rain_factor
        s3 == s2 + perturbation
    IN  Round1(Max(5000, s3))

\* TrafficEngine.calculate_speed; perturbation is the value random.uniform(-3, 3)
\* returned, in thousandths.
calculate_speed(vehicle_count, rain_factor, perturbation) ==
    LET max_speed == 60000
        min_speed == 5000
        s1 == max_speed - vehicle_count * 100
        s2 == (s1 * 10) \div rain_factor
        s3 == s2 + perturbation
    IN  Round1(Max(min_speed, Min(max_speed, s3)))

\* DataGenerator.calculate_speed
gen_calculate_speed(vehicle_count, rain_factor, perturbation) ==
    LET max_speed == 60000
        min_speed == 5000
        s1 == max_speed - vehicle_count * 100
        s2 == (s1 * 10) \div rain_factor
        s3 == s2 + perturbation
    IN  Round1(Max(min_speed, Min(max_speed, s3)))

---------------------------------------------------------------------------
(* Time: datetime values are ticks, TicksPerSecond to the second *)

SecondsPerDay == 24 * 60 * 60
TicksPerDay == SecondsPerDay * TicksPerSecond

\* datetime.strftime("%Y-%m-%d %H:%M:%S"): the sub-second part is dropped.
\* The text is represented by the number of whole seconds, which orders
\* as the text does.
Strftime(t) == t \div TicksPerSecond

\* datetime.hour
HourOf(t) == (t \div (3600 * TicksPerSecond)) % 24

\* datetime.minute
MinuteOf(t) == (t \div (60 * TicksPerSecond)) % 60

\* The hour of a formatted timestamp
HourOfTimestamp(ts) == (ts \div 3600) % 24

---------------------------------------------------------------------------
(* Weather readings and traffic readings *)

\* The value None where a weather dict is expected.
None ==
    [location |-> "None", weather_code |-> 0, weather_desc |-> "None",
     rain_category |-> "None", timestamp |-> 0]

\* A simulate_location that classifies the count it had before the rain
SimulateLocationClassifiesBeforeRain(location, weather, t, location_variance, perturbation) ==
    LET hour == HourOf(t)
        vehicles0 == (VehiclePatternGet(hour) * location_variance) \div 100
        rain_factor == IF weather # None
                       THEN RainImpactGet(weather.rain_category) ELSE 10
        vehicles == IF weather # None
                    THEN (vehicles0 * rain_factor) \div 10 ELSE vehicles0
    IN  [timestamp |-> Strftime(t), location |-> location,
         vehicle_count |-> vehicles,
         condition |-> get_traffic_condition(vehicles0),
         speed_kmh |-> calculate_speed(vehicles, rain_factor, perturbation),
         hour |-> hour, is_peak |-> IF is_peak_hour(hour) THEN 1 ELSE 0,
         rain_factor |-> rain_factor, data_source |-> "real_time_simulated"]

\* TrafficEngine.simulate_location; t is datetime.now(), location_variance the
\* value of random.uniform(0.8, 1.2) in hundredths, perturbation the value of
\* random.uniform(-3, 3) in thousandths.
simulate_location(location, weather, t, location_variance, perturbation) ==
    LET hour == HourOf(t)
        base_vehicles == VehiclePatternGet(hour)
        vehicles0 == (base_vehicles * location_variance) \div 100
        rain_factor == IF weather # None
                       THEN RainImpactGet(weather.rain_category) ELSE 10
        vehicles == IF weather # None
                    THEN (vehicles0 * rain_factor) \div 10 ELSE vehicles0
        condition == get_traffic_condition(vehicles)
        speed == calculate_speed(vehicles, rain_factor, perturbation)
        is_peak == IF is_peak_hour(hour) THEN 1 ELSE 0
    IN  [timestamp |-> Strftime(t), location |-> location,
         vehicle_count |-> vehicles, condition |-> condition,
         speed_kmh |-> speed, hour |-> hour, is_peak |-> is_peak,
         rain_factor |-> rain_factor, data_source |-> "real_time_simulated"]

\* The traffic record generate_historical_data appends for one location of one
\* slot; current_time is the slot, weather the cached weather of its hour,
\* location_var and day_var the two random.uniform factors in hundredths.
GenTrafficRecord(location, weather, current_time, location_var, day_var, perturbation) ==
    LET hour == HourOf(current_time)
        base_vehicles == VehiclePatternGet(hour)
        rain_factor == RainImpactGet(weather.rain_category)
        vehicles == (base_vehicles * location_var * day_var * rain_factor)
                        \div 100000
        condition == get_condition(vehicles)
        speed == gen_calculate_speed(vehicles, rain_factor, perturbation)
        is_peak == GenIsPeak(hour)
    IN  [timestamp |-> Strftime(current_time), location |-> location,
         vehicle_count |-> vehicles, condition |-> condition,
         speed_kmh |-> speed, hour |-> hour, is_peak |-> is_peak,
         rain_factor |-> rain_factor, data_source |-> "historical_generated"]

\* A weather dict as get_weather builds it, reduced to the fields read later.
WeatherDict(location, weather_code, desc, cat, t) ==
    [location |-> location, weather_code |-> weather_code,
     weather_desc |-> desc, rain_category |-> cat, timestamp |-> Strftime(t)]

---------------------------------------------------------------------------
(* Initial values *)

NoCall == [op |-> "none", arg |-> <<>>, res |-> 0]

InitDb ==
    /\ traffic_data = <<>>
    /\ weather_data = <<>>
    /\ traffic_seq = 0
    /\ weather_seq = 0

InitEngine ==
    /\ e_pc = "idle"
    /\ weather_list = <<>>
    /\ traffic_records = <<>>
    /\ e_i = 1
    /\ e_ret = <<>>
    /\ e_status = "none"
    /\ api_down = {}

NoResult == [op |-> "none", arg |-> <<>>, value |-> <<>>]

\* generate_historical_data has not been called; HISTORICAL_DAYS as configured
\* The browser sessions of the dashboard, and a session that has not run the
\* script yet: nothing in st.session_state, initialize not running, no
\* locals.  calls and backfills count the calls of initialize and of
\* generate_historical_data the session has made.
Sessions == {"A", "B"}
NewSession ==
    [initialized |-> FALSE, pc |-> "none", calls |-> 0, backfills |-> 0,
     g_now |-> 0, current_date |-> 0, traffic_batch |-> <<>>,
     weather_batch |-> <<>>, count |-> 0, g_i |-> 0]

InitApp == sessions = [s \in Sessions |-> NewSession]

InitGen ==
    /\ g_pc = "idle"
    /\ g_now = 0
    /\ current_date = 0
    /\ traffic_batch = <<>>
    /\ weather_batch = <<>>
    /\ total_expected = 0
    /\ count = 0
    /\ g_i = 0
    /\ total_traffic = 0
    /\ total_weather = 0

---------------------------------------------------------------------------
(* SpecModel: the functions of the shared traffic model called on their own *)

InitModel ==
    /\ call = NoCall
    /\ now = 0
    /\ rng = 0
    /\ InitDb
    /\ InitEngine
    /\ result = NoResult
    /\ historical_days = HISTORICAL_DAYS
    /\ InitGen
    /\ InitApp

notModelVars ==
    <<now, rng, traffic_data, weather_data, traffic_seq, weather_seq,
      e_pc, weather_list, traffic_records, e_i, e_ret, e_status, api_down,
      result, genVars, appVars>>

CallGetTrafficCondition ==
    /\ call.op = "none"
    /\ \E v \in 0..MaxVehicleCount :
        /\ call' = [op |-> "get_traffic_condition", arg |-> <<v>>,
                    res |-> get_traffic_condition(v)]
        /\ UNCHANGED notModelVars

CallGetCondition ==
    /\ call.op = "none"
    /\ \E v \in 0..MaxVehicleCount :
        /\ call' = [op |-> "get_condition", arg |-> <<v>>,
                    res |-> get_condition(v)]
        /\ UNCHANGED notModelVars

CallCalculateSpeed ==
    /\ call.op = "none"
    /\ \E v \in 0..MaxSpeedVehicles, r \in 10..MaxRainFactor,
       u \in SeqRange(Perturbations) :
        /\ call' = [op |-> "calculate_speed", arg |-> <<v, r, u>>,
                    res |-> calculate_speed(v, r, u)]
        /\ UNCHANGED notModelVars

CallGenCalculateSpeed ==
    /\ call.op = "none"
    /\ \E v \in 0..MaxSpeedVehicles, r \in 10..MaxRainFactor,
       u \in SeqRange(Perturbations) :
        /\ call' = [op |-> "gen_calculate_speed", arg |-> <<v, r, u>>,
                    res |-> gen_calculate_speed(v, r, u)]
        /\ UNCHANGED notModelVars

CallIsPeakHour ==
    /\ call.op = "none"
    /\ \E h \in 0..23 :
        /\ call' = [op |-> "is_peak_hour", arg |-> <<h>>,
                    res |-> is_peak_hour(h)]
        /\ UNCHANGED notModelVars

CallGenIsPeak ==
    /\ call.op = "none"
    /\ \E h \in 0..23 :
        /\ call' = [op |-> "gen_is_peak", arg |-> <<h>>, res |-> GenIsPeak(h)]
        /\ UNCHANGED notModelVars

\* simulate_location at every hour of the day, with and without weather
CallSimulateLocation ==
    /\ call.op = "none"
    /\ \E h \in 0..23, loc \in LocationSet,
       cat \in SeqRange(RainCategories) \cup {"None"},
       lv \in SeqRange(LocationVariances), u \in SeqRange(Perturbations) :
        LET t == h * 3600 * TicksPerSecond
            w == IF cat = "None" THEN None
                 ELSE WeatherDict(loc, 0, "x", cat, t)
        IN  /\ call' = [op |-> "simulate_location", arg |-> <<h, cat, lv, u>>,
                        res |-> simulate_location(loc, w, t, lv, u)]
            /\ UNCHANGED notModelVars

\* the generator's traffic record at every hour of a weekday or a weekend day
CallGenTrafficRecord ==
    /\ call.op = "none"
    /\ \E h \in 0..23, loc \in LocationSet, cat \in SeqRange(RainCategories),
       lv \in SeqRange(LocationVariances),
       dv \in SeqRange(WeekendVariances) \cup SeqRange(WeekdayVariances),
       u \in SeqRange(Perturbations) :
        LET t == h * 3600 * TicksPerSecond
            w == [rain_category |-> cat]
        IN  /\ call' = [op |-> "gen_traffic_record", arg |-> <<h, cat, lv, dv, u>>,
                        res |-> GenTrafficRecord(loc, w, t, lv, dv, u)]
            /\ UNCHANGED notModelVars

\* The call returns; the next one starts from scratch.
ReturnFromCall ==
    /\ call.op # "none"
    /\ call' = NoCall
    /\ UNCHANGED notModelVars

NextModel ==
    \/ ReturnFromCall
    \/ CallGetTrafficCondition
    \/ CallGetCondition
    \/ CallCalculateSpeed
    \/ CallGenCalculateSpeed
    \/ CallIsPeakHour
    \/ CallGenIsPeak
    \/ CallSimulateLocation
    \/ CallGenTrafficRecord

SpecModel == InitModel /\ [][NextModel]_vars

---------------------------------------------------------------------------
(* Claims about the shared traffic model, checked under SpecModel *)

\* The bands of the threshold table that contain v
BandsContaining(v) ==
    {i \in 1..Len(TRAFFIC_THRESHOLDS) :
        TRAFFIC_THRESHOLDS[i][2] <= v /\ v < TRAFFIC_THRESHOLDS[i][3]}

\* The label the claim assigns to v
BandLabel(v) ==
    CASE 0 <= v /\ v < 100 -> "Lancar"
      [] 100 <= v /\ v < 200 -> "Sedang"
      [] 200 <= v /\ v < 350 -> "Padat"
      [] 350 <= v /\ v < 500 -> "Sangat Padat"
      [] OTHER -> "Macet"

\* C1: for every vehicle_count v >= 0 both classifiers return the label of the
\* one half-open band [low, high) of TRAFFIC_THRESHOLDS that contains v
\* (Lancar [0,100), Sedang [100,200), Padat [200,350), Sangat Padat [350,500),
\* Macet [500,9999)); exactly one band contains every v below 9999 (no gap, no
\* overlap), and for v >= 9999 no band does and the fallback returns Macet.
C1_ClassifierTotalAndUnique ==
    call.op \in {"get_traffic_condition", "get_condition"} =>
        LET v == call.arg[1]
        IN  /\ call.res = BandLabel(v)
            /\ v < 9999 =>
                 /\ Cardinality(BandsContaining(v)) = 1
                 /\ \A i \in BandsContaining(v) :
                        call.res = TRAFFIC_THRESHOLDS[i][1]
            /\ v >= 9999 => BandsContaining(v) = {} /\ call.res = "Macet"

\* C1 witness: the generator's classifier took the fallback at v >= 9999
C1_Witness ==
    /\ call.op = "get_condition"
    /\ call.arg[1] >= 9999
    /\ call.res = "Macet"

\* The speed before the clamp, in thousandths
RawSpeed(v, r, u) == ((60000 - v * 100) * 10) \div r + u

\* C2: for every v >= 0, rain_factor r >= 1 and perturbation in [-3, 3] both
\* calculate_speed functions return a value in [5.0, 60.0]: 5.0 where the
\* unclamped speed is below 5, 60.0 where it is above 60, and otherwise the
\* unclamped speed rounded to one decimal.
C2_SpeedClamped ==
    call.op \in {"calculate_speed", "gen_calculate_speed"} =>
        LET raw == RawSpeed(call.arg[1], call.arg[2], call.arg[3])
        IN  /\ 50 <= call.res /\ call.res <= 600
            /\ raw <= 5000 => call.res = 50
            /\ raw >= 60000 => call.res = 600
            /\ (5000 <= raw /\ raw <= 60000) =>
                   (call.res * 100 - raw <= 50 /\ raw - call.res * 100 <= 50)

\* C2 witness: the engine's speed was cut down to 60.0 by the upper clamp
C2_Witness ==
    /\ call.op = "calculate_speed"
    /\ RawSpeed(call.arg[1], call.arg[2], call.arg[3]) > 60000
    /\ call.res = 600

PeakHours == {6, 7, 8, 16, 17, 18}

\* C3: for every hour h in 0..23 is_peak_hour(h) is true iff h is in
\* {6,7,8,16,17,18}, the generator's inline test gives 1 for exactly those
\* hours, and a reading built by the engine or by the generator has
\* is_peak = 1 iff its hour is in {6,7,8,16,17,18}.
C3_PeakHours ==
    /\ call.op = "is_peak_hour" => (call.res <=> call.arg[1] \in PeakHours)
    /\ call.op = "gen_is_peak" =>
            /\ call.res \in {0, 1}
            /\ call.res = 1 <=> call.arg[1] \in PeakHours
    /\ call.op \in {"simulate_location", "gen_traffic_record"} =>
            /\ call.res.hour = call.arg[1]
            /\ call.res.is_peak \in {0, 1}
            /\ call.res.is_peak = 1 <=> call.res.hour \in PeakHours

\* C3 witness: the engine built a reading at hour 9, just after the morning
\* peak, and did not flag it
C3_Witness ==
    /\ call.op = "simulate_location"
    /\ call.res.hour = 9
    /\ call.res.is_peak = 0

\* The hour, the rain category and the location noise factor (in hundredths)
\* of the call of simulate_location that has just returned
CalledHour == call.arg[1]
CalledCategory == call.arg[2]
CalledVariance == call.arg[3]

\* C23: for the same base value of the hour, the same location noise factor f
\* and the same rain factor r, the vehicle_count of simulate_location is
\* int(base x f x r), the generator's formula without the day-type factor,
\* truncated once; for every base of VEHICLE_PATTERN, every f drawn and every
\* r of RAIN_IMPACT, and with r = 1.0 when there is no weather.
C23_EngineCountIsGeneratorFormula ==
    call.op = "simulate_location" =>
        LET base == VehiclePatternGet(CalledHour)
            r == IF CalledCategory = "None" THEN 10
                 ELSE RainImpactGet(CalledCategory)
        IN  call.res.vehicle_count = (base * CalledVariance * r) \div 1000

\* The same without rain: with a rain factor of 1.0 the second truncation
\* of simulate_location changes nothing.
C23_EngineCountWithoutRain ==
    (call.op = "simulate_location" /\ call.res.rain_factor = 10) =>
        call.res.vehicle_count
            = (VehiclePatternGet(CalledHour) * CalledVariance * 10) \div 1000

---------------------------------------------------------------------------
(* random: a generator with RngModulus states *)

\* The generator's next state
RngNext(r) == (5 * r + 3) % RngModulus

\* random.uniform over a grid of values, from generator state r
Draw(grid, r) == grid[(r % Len(grid)) + 1]

\* The seeds the generator may start from
Seeds == {0}

---------------------------------------------------------------------------
(* database.py: TrafficDatabase *)

\* The rows INSERT adds for records: each gets the next AUTOINCREMENT id.
NewRows(records, seq) ==
    [i \in 1..Len(records) |-> [id |-> seq + i] @@ records[i]]

\* An insert that replaces the rows of the locations it writes
\* (INSERT OR REPLACE on a location key).
InsertTrafficDataReplace(records) ==
    LET written == {records[i].location : i \in 1..Len(records)}
        kept == SelectSeq(traffic_data, LAMBDA row : row.location \notin written)
    IN  /\ traffic_data' = kept \o NewRows(records, traffic_seq)
        /\ traffic_seq' = traffic_seq + Len(records)

\* An insert with execute in place of executemany: only the first record is
\* written.
InsertTrafficDataFirstOnly(records) ==
    IF records = <<>>
    THEN UNCHANGED <<traffic_data, traffic_seq>>
    ELSE /\ traffic_data' = Append(traffic_data, NewRows(records, traffic_seq)[1])
         /\ traffic_seq' = traffic_seq + 1

\* TrafficDatabase.insert_traffic_data
insert_traffic_data(records) ==
    IF records = <<>>
    THEN UNCHANGED <<traffic_data, traffic_seq>>
    ELSE /\ traffic_data' = traffic_data \o NewRows(records, traffic_seq)
         /\ traffic_seq' = traffic_seq + Len(records)

\* TrafficDatabase.insert_weather_data, once for each record of a list:
\* the loop of fetch_and_save
insert_weather_list(records) ==
    /\ weather_data' = weather_data \o NewRows(records, weather_seq)
    /\ weather_seq' = weather_seq + Len(records)

\* TrafficDatabase.clear_all_data; the AUTOINCREMENT counters are kept
clear_all_data ==
    /\ traffic_data' = <<>>
    /\ weather_data' = <<>>
    /\ UNCHANGED <<traffic_seq, weather_seq>>

\* TrafficDatabase.get_traffic_count
get_traffic_count == Len(traffic_data)

\* TrafficDatabase.get_weather_count
get_weather_count == Len(weather_data)

---------------------------------------------------------------------------
(* weather_api.py: WeatherAPI *)

\* WeatherAPI.decode_weather_code: <<description, rain_category>>
decode_weather_code(code) ==
    CASE code = 0 -> <<"Cerah", "none">>
      [] code = 1 -> <<"Cerah Sebagian", "none">>
      [] code = 2 -> <<"Berawan Sebagian", "none">>
      [] code = 3 -> <<"Mendung", "none">>
      [] code = 45 -> <<"Kabut", "none">>
      [] code = 48 -> <<"Kabut Tebal", "none">>
      [] code = 51 -> <<"Gerimis Ringan", "light">>
      [] code = 53 -> <<"Gerimis Sedang", "light">>
      [] code = 55 -> <<"Gerimis Lebat", "moderate">>
      [] code = 61 -> <<"Hujan Ringan", "light">>
      [] code = 63 -> <<"Hujan Sedang", "moderate">>
      [] code = 65 -> <<"Hujan Lebat", "heavy">>
      [] code = 66 -> <<"Hujan Es Ringan", "moderate">>
      [] code = 67 -> <<"Hujan Es Lebat", "heavy">>
      [] code = 71 -> <<"Salju Ringan", "light">>
      [] code = 73 -> <<"Salju Sedang", "moderate">>
      [] code = 75 -> <<"Salju Lebat", "heavy">>
      [] code = 80 -> <<"Hujan Singkat", "light">>
      [] code = 81 -> <<"Hujan Singkat Sedang", "moderate">>
      [] code = 82 -> <<"Hujan Singkat Lebat", "heavy">>
      [] code = 95 -> <<"Petir", "extreme">>
      [] code = 96 -> <<"Petir + Es", "extreme">>
      [] code = 99 -> <<"Petir + Es Lebat", "extreme">>
      [] OTHER -> <<"Unknown", "none">>

\* The weather codes the API is taken to answer with: heavy rain
WeatherCodes == {65}

\* The ways a fetch fails: a status other than 200, requests' ConnectionError
\* and Timeout, and any other exception raised while fetching or parsing.
FetchFailures == {"status", "ConnectionError", "Timeout", "Exception"}

\* WeatherAPI.get_weather for a configured location; outcome is "ok" or one
\* of FetchFailures, weathercode the code of the response, t datetime.now().
get_weather(location, outcome, weathercode, t) ==
    IF outcome = "ok"
    THEN LET weather_info == decode_weather_code(weathercode)
         IN  WeatherDict(location, weathercode, weather_info[1],
                         weather_info[2], t)
    ELSE None

\* weather_map.get(location), weather_map built from weather_list
WeatherMapGet(wlist, location) ==
    LET hits == {i \in 1..Len(wlist) : wlist[i].location = location}
    IN  IF hits = {} THEN None
        ELSE wlist[CHOOSE i \in hits : \A j \in hits : j <= i]

---------------------------------------------------------------------------
(* data_generator.py: the records of one time slot *)

\* The generator state after n draws
RECURSIVE RngSkip(_, _)
RngSkip(r, n) == IF n = 0 THEN r ELSE RngSkip(RngNext(r), n - 1)

\* datetime.weekday(): 0 = Monday
Weekday(t) == (t \div TicksPerDay) % 7

\* The "for location in LOCATIONS" loop of one slot: one traffic record per
\* location, each from three draws (location_var, day_var, the speed's
\* perturbation) of the generator, which starts the slot in state r.
GenSlotRecords(current_time, weather, day_of_week, r) ==
    [i \in 1..Len(LOCATIONS) |->
        LET r1 == RngSkip(r, 3 * (i - 1))
            location_var == Draw(LocationVariances, r1)
            day_var == IF day_of_week >= 5
                       THEN Draw(WeekendVariances, RngNext(r1))
                       ELSE Draw(WeekdayVariances, RngNext(r1))
            u == Draw(Perturbations, RngSkip(r1, 2))
        IN  GenTrafficRecord(LOCATIONS[i], weather, current_time,
                             location_var, day_var, u)]

---------------------------------------------------------------------------
(* Spec: simulation cycles, direct inserts and clear_all_data on one database *)

\* Monday of the second week, 08:59:59
NowStart == (7 * SecondsPerDay + 8 * 3600 + 59 * 60 + 59) * TicksPerSecond

\* Slots of the day before, 17:00:00 and 17:05:00, as a backfill walks them
FlushSlots ==
    <<(6 * SecondsPerDay + 17 * 3600) * TicksPerSecond,
      (6 * SecondsPerDay + 17 * 3600 + 300) * TicksPerSecond>>

Init ==
    /\ call = NoCall
    /\ now = NowStart
    /\ rng \in Seeds
    /\ InitDb
    /\ InitEngine
    /\ result = NoResult
    /\ historical_days = HISTORICAL_DAYS
    /\ InitGen
    /\ InitApp

\* Time passes between two operations, up to 09:00:00.
Tick ==
    /\ e_pc = "idle"
    /\ now < NowStart + TicksPerSecond
    /\ now' = now + 1
    /\ UNCHANGED <<call, genVars, rng, dbVars, engineVars, result, appVars>>

\* run_simulation_cycle is called: fetch_and_save starts get_all_weather.
StartCycle ==
    /\ e_pc = "idle"
    /\ traffic_seq + Len(LOCATIONS) <= MaxTrafficSeq
    /\ weather_seq + Len(LOCATIONS) <= MaxTrafficSeq
    /\ e_pc' = "fetch"
    /\ e_i' = 1
    /\ weather_list' = <<>>
    /\ traffic_records' = <<>>
    /\ api_down' = {}
    /\ UNCHANGED <<call, genVars, now, rng, dbVars, e_ret, e_status, result, appVars>>

\* After the location at e_i: the next location, or the next phase.
AdvanceFrom(phase, nextPhase) ==
    IF e_i < Len(LOCATIONS)
    THEN e_i' = e_i + 1 /\ e_pc' = phase
    ELSE e_i' = 1 /\ e_pc' = nextPhase

\* get_all_weather: get_weather answers for the next location.
GetWeatherOk ==
    /\ e_pc = "fetch"
    /\ \E code \in WeatherCodes :
          weather_list' =
              Append(weather_list, get_weather(LOCATIONS[e_i], "ok", code, now))
    /\ AdvanceFrom("fetch", "save")
    /\ UNCHANGED <<call, genVars, now, rng, dbVars, traffic_records, e_ret, e_status,
                   api_down, result, appVars>>

\* get_all_weather without its "if data:" test: the None of a failed fetch is
\* appended to the results.
GetWeatherFailsAppendsNone ==
    /\ e_pc = "fetch"
    /\ \E kind \in FetchFailures :
          /\ weather_list' =
                Append(weather_list, get_weather(LOCATIONS[e_i], kind, 0, now))
          /\ api_down' = api_down \cup {LOCATIONS[e_i]}
    /\ AdvanceFrom("fetch", "save")
    /\ UNCHANGED <<call, genVars, now, rng, dbVars, traffic_records, e_ret, e_status,
                   result, appVars>>

\* get_all_weather: get_weather returns None for the next location, which is
\* left out of the results.
GetWeatherFails ==
    /\ e_pc = "fetch"
    /\ \E kind \in FetchFailures :
          /\ get_weather(LOCATIONS[e_i], kind, 0, now) = None
          /\ api_down' = api_down \cup {LOCATIONS[e_i]}
    /\ AdvanceFrom("fetch", "save")
    /\ UNCHANGED <<call, genVars, now, rng, dbVars, weather_list, traffic_records,
                   e_ret, e_status, result, appVars>>

\* fetch_and_save: every fetched weather is inserted, and the list returned.
SaveWeather ==
    /\ e_pc = "save"
    /\ insert_weather_list(weather_list)
    /\ e_pc' = "simulate"
    /\ UNCHANGED <<call, genVars, now, rng, traffic_data, traffic_seq, weather_list,
                   traffic_records, e_i, e_ret, e_status, api_down, result, appVars>>

\* The loop body of run_simulation_cycle for the next location.
SimulateLocation ==
    /\ e_pc = "simulate"
    /\ LET location == LOCATIONS[e_i]
           weather == WeatherMapGet(weather_list, location)
           location_variance == Draw(LocationVariances, rng)
           u == Draw(Perturbations, RngNext(rng))
       IN  traffic_records' =
               Append(traffic_records,
                      simulate_location(location, weather, now,
                                        location_variance, u))
    /\ rng' = RngSkip(rng, 2)
    /\ AdvanceFrom("simulate", "persist")
    /\ UNCHANGED <<call, genVars, now, dbVars, weather_list, e_ret, e_status, api_down,
                   result, appVars>>

\* Step 3 of run_simulation_cycle: the batch insert, then the return.
Persist ==
    /\ e_pc = "persist"
    /\ insert_traffic_data(traffic_records)
    /\ e_ret' = traffic_records
    /\ e_status' = "returned"
    /\ e_pc' = "done"
    /\ UNCHANGED <<call, genVars, now, rng, weather_data, weather_seq, weather_list,
                   traffic_records, e_i, api_down, result, appVars>>

\* A database write of the cycle raises (sqlite3.Error): nothing is committed
\* and the exception leaves run_simulation_cycle.
CycleStorageError ==
    /\ e_pc \in {"save", "persist"}
    /\ e_status' = "raised"
    /\ e_pc' = "done"
    /\ UNCHANGED <<call, genVars, now, rng, dbVars, weather_list, traffic_records, e_i,
                   e_ret, api_down, result, appVars>>

\* The caller has the return value, or the exception: the operation's locals
\* are gone.
FinishCycle ==
    /\ e_pc = "done"
    /\ e_pc' = "idle"
    /\ weather_list' = <<>>
    /\ traffic_records' = <<>>
    /\ e_i' = 1
    /\ e_ret' = <<>>
    /\ e_status' = "none"
    /\ api_down' = {}
    /\ UNCHANGED <<call, genVars, now, rng, dbVars, result, appVars>>

\* insert_traffic_data called with a batch of a backfill: none, one or two
\* slots of generated records, their weather drawn first.
InsertTrafficBatch ==
    /\ e_pc = "idle"
    /\ \E n \in 0..Len(FlushSlots) :
          LET w == [rain_category |-> Draw(RainCategories, rng)]
              r1 == RngNext(rng)
              batch ==
                  IF n = 0 THEN <<>>
                  ELSE IF n = 1
                  THEN GenSlotRecords(FlushSlots[1], w, Weekday(FlushSlots[1]), r1)
                  ELSE GenSlotRecords(FlushSlots[1], w, Weekday(FlushSlots[1]), r1)
                       \o GenSlotRecords(FlushSlots[2], w, Weekday(FlushSlots[2]),
                                         RngSkip(r1, 3 * Len(LOCATIONS)))
          IN  /\ traffic_seq + Len(batch) <= MaxTrafficSeq
              /\ insert_traffic_data(batch)
              /\ traffic_records' = batch
              /\ rng' = IF n = 0 THEN rng ELSE RngSkip(r1, 3 * Len(batch))
    /\ e_pc' = "done"
    /\ e_status' = "inserted"
    /\ UNCHANGED <<call, genVars, now, weather_data, weather_seq, weather_list, e_i,
                   e_ret, api_down, result, appVars>>

\* clear_all_data is called.
ClearAllData ==
    /\ e_pc = "idle"
    /\ clear_all_data
    /\ e_pc' = "done"
    /\ e_status' = "cleared"
    /\ UNCHANGED <<call, genVars, now, rng, weather_list, traffic_records, e_i, e_ret,
                   api_down, result, appVars>>

Next ==
    \/ Tick
    \/ StartCycle
    \/ GetWeatherOk
    \/ GetWeatherFails
    \/ SaveWeather
    \/ SimulateLocation
    \/ Persist
    \/ CycleStorageError
    \/ FinishCycle
    \/ InsertTrafficBatch
    \/ ClearAllData

Spec == Init /\ [][Next]_vars

---------------------------------------------------------------------------
(* Claims about the simulation cycle and the database, checked under Spec *)

IsPrefix(a, b) == Len(a) <= Len(b) /\ SubSeq(b, 1, Len(a)) = a

\* A table row without its id: the record that was inserted
WithoutId(row) == [f \in DOMAIN row \ {"id"} |-> row[f]]

\* The last n rows of a table, as the records inserted
LastInserted(table, n) ==
    [i \in 1..n |-> WithoutId(table[Len(table) - n + i])]

\* C5: a cycle writes no traffic row before every location has been
\* simulated; the step that completes it inserts, as one batch, exactly one
\* reading per configured location, in LOCATIONS order and all tagged
\* real_time_simulated, raises the traffic row count by len(LOCATIONS), and
\* returns the list it inserted.  Each completed cycle adds len(LOCATIONS)
\* rows, so k completed cycles add k x len(LOCATIONS).
C5_CycleOneReadingPerLocation ==
    [][ /\ e_pc \in {"fetch", "save", "simulate"} =>
              traffic_data' = traffic_data
        /\ (e_pc = "persist" /\ e_status' = "returned") =>
              /\ Len(e_ret') = Len(LOCATIONS)
              /\ \A i \in 1..Len(LOCATIONS) :
                    /\ e_ret'[i].location = LOCATIONS[i]
                    /\ e_ret'[i].data_source = "real_time_simulated"
              /\ Len(traffic_data') = Len(traffic_data) + Len(LOCATIONS)
              /\ IsPrefix(traffic_data, traffic_data')
              /\ LastInserted(traffic_data', Len(LOCATIONS)) = e_ret'
      ]_vars

\* C5 witness: the second cycle has completed, and the table holds the
\* 2 x len(LOCATIONS) readings of the two cycles
C5_Witness ==
    /\ e_pc = "done"
    /\ e_status = "returned"
    /\ Len(traffic_data) = 2 * Len(LOCATIONS)
    /\ \A i \in 1..Len(traffic_data) :
          traffic_data[i].data_source = "real_time_simulated"

C7_AppendOnly ==
    [][ /\ (Len(traffic_data') < Len(traffic_data)
              \/ ~IsPrefix(traffic_data, traffic_data')
              \/ ~IsPrefix(weather_data, weather_data')) => ClearAllData
        /\ e_status' = "cleared" =>
              Len(traffic_data') = 0 /\ Len(weather_data') = 0
        /\ (e_pc = "idle" /\ e_status' = "inserted") =>
              /\ Len(traffic_data') = Len(traffic_data) + Len(traffic_records')
              /\ LastInserted(traffic_data', Len(traffic_records'))
                    = traffic_records'
              /\ weather_data' = weather_data
        /\ (e_pc = "persist" /\ e_status' = "returned") =>
              /\ Len(traffic_data') = Len(traffic_data) + Len(traffic_records)
              /\ weather_data' = weather_data
        /\ \A i, j \in 1..Len(traffic_data') :
              i < j => traffic_data'[i].id < traffic_data'[j].id
      ]_vars

\* C7 witness: rows inserted before the last clear_all_data are gone, and a
\* batch was inserted after it
C7_Witness ==
    /\ e_pc = "done"
    /\ e_status = "inserted"
    /\ traffic_data # <<>>
    /\ traffic_data[1].id > 1

\* The readings that have been emitted: the rows stored and the records of the
\* cycle or batch in hand
EmittedReadings ==
    SeqRange(traffic_data) \cup SeqRange(traffic_records) \cup SeqRange(e_ret)

\* C15: the table of rain factors does not decrease with the severity of the
\* rain (none 1.0 <= light 1.3 <= moderate 1.6 <= heavy 1.8 <= extreme 2.0),
\* a category that is not in the table and missing weather give 1.0, and every
\* reading the engine or the generator emits carries a rain_factor of the
\* table, so that rain_factor >= 1.0 in every stored reading.
C15_RainFactorTable ==
    /\ \A i, j \in 1..Len(RainCategories) :
          i <= j => RAIN_IMPACT[RainCategories[i]] <= RAIN_IMPACT[RainCategories[j]]
    /\ <<RAIN_IMPACT["none"], RAIN_IMPACT["light"], RAIN_IMPACT["moderate"],
         RAIN_IMPACT["heavy"], RAIN_IMPACT["extreme"]>> = <<10, 13, 16, 18, 20>>
    /\ RainImpactGet("unknown") = 10
    /\ \A loc \in LocationSet :
          simulate_location(loc, None, now, 100, 0).rain_factor = 10
    /\ \A reading \in EmittedReadings :
          /\ reading.rain_factor \in {10, 13, 16, 18, 20}
          /\ reading.rain_factor >= 10
          /\ reading.data_source = "real_time_simulated" =>
                reading.rain_factor \in {10, 18}

\* Stored are a reading the engine made under heavy rain, one it made without
\* weather, and a reading of the generator.
C15_Witness ==
    /\ \E i \in 1..Len(traffic_data) :
          /\ traffic_data[i].data_source = "real_time_simulated"
          /\ traffic_data[i].rain_factor = 18
    /\ \E i \in 1..Len(traffic_data) :
          /\ traffic_data[i].data_source = "real_time_simulated"
          /\ traffic_data[i].rain_factor = 10
    /\ \E i \in 1..Len(traffic_data) :
          traffic_data[i].data_source = "historical_generated"

\* The fields of the traffic reading row agree with each other.
ConsistentReading(row) ==
    /\ row.vehicle_count \in Nat
    /\ row.condition = BandLabel(row.vehicle_count)
    /\ row.condition = get_traffic_condition(row.vehicle_count)
    /\ row.hour \in 0..23
    /\ row.hour = HourOfTimestamp(row.timestamp)
    /\ 50 <= row.speed_kmh /\ row.speed_kmh <= 600

\* C25: every traffic reading persisted, by the generator or by the engine,
\* is consistent: vehicle_count is a non-negative integer, condition is the
\* classifier's label of that count, hour is in 0..23 and is the hour of the
\* timestamp, and speed_kmh is in [5.0, 60.0].
C25_ReadingsConsistent ==
    \A i \in 1..Len(traffic_data) : ConsistentReading(traffic_data[i])

\* The table holds a reading of the engine made under rain and a reading of
\* the generator.
C25_Witness ==
    /\ \E i \in 1..Len(traffic_data) :
          /\ traffic_data[i].data_source = "real_time_simulated"
          /\ traffic_data[i].rain_factor > 10
    /\ \E i \in 1..Len(traffic_data) :
          traffic_data[i].data_source = "historical_generated"

---------------------------------------------------------------------------
(* data_generator.py: DataGenerator.generate_historical_data *)

\* The values random.random() and the fraction of a random.uniform are taken
\* to return, in hundredths.
UnitDraws == <<5, 60, 90, 97>>

\* round(random.uniform(a, b), d): a and b in units of 10^-d, f the fraction drawn
RoundUniform(a, b, f) == a + ((b - a) * f + 50) \div 100

\* rain_probability of simulate_historical_weather after its 1.2 boost, in
\* hundredths
RainProbability(hour) ==
    IF 6 <= hour /\ hour <= 10 THEN 54
    ELSE IF 15 <= hour /\ hour <= 18 THEN 48
    ELSE IF 0 <= hour /\ hour <= 5 THEN 12
    ELSE 18

\* is_rain of simulate_historical_weather, from generator state r
IsRain(hour, r) == Draw(UnitDraws, r) < RainProbability(hour)

\* The number of draws one call of simulate_historical_weather makes
WeatherDraws(hour, r) == IF IsRain(hour, r) THEN 4 ELSE 2

\* DataGenerator.simulate_historical_weather, the generator in state r;
\* precipitation in hundredths of a mm, temperature in tenths of a degree
simulate_historical_weather(hour, day_of_week, r) ==
    LET is_rain == IsRain(hour, r)
        intensity == Draw(UnitDraws, RngNext(r))
        p == Draw(UnitDraws, RngSkip(r, 2))
        rain_cat ==
            IF ~is_rain THEN "none"
            ELSE IF intensity < 50 THEN "light"
            ELSE IF intensity < 80 THEN "moderate"
            ELSE IF intensity < 95 THEN "heavy"
            ELSE "extreme"
        precipitation ==
            IF ~is_rain THEN 0
            ELSE IF intensity < 50 THEN RoundUniform(50, 250, p)
            ELSE IF intensity < 80 THEN RoundUniform(250, 700, p)
            ELSE IF intensity < 95 THEN RoundUniform(700, 1500, p)
            ELSE RoundUniform(1500, 3000, p)
        t == Draw(UnitDraws, RngSkip(r, WeatherDraws(hour, r) - 1))
        temperature ==
            IF 5 <= hour /\ hour <= 10 THEN RoundUniform(250, 290, t)
            ELSE IF 10 <= hour /\ hour <= 15 THEN RoundUniform(290, 330, t)
            ELSE IF 15 <= hour /\ hour <= 20 THEN RoundUniform(270, 310, t)
            ELSE RoundUniform(240, 280, t)
    IN  [precipitation |-> precipitation, rain_category |-> rain_cat,
         temperature |-> temperature]

\* Weather records for the first location only
GenWeatherRecordsFirstOnly(current_time, weather, r) ==
    << [timestamp |-> Strftime(current_time), location |-> LOCATIONS[1],
        temperature |-> weather.temperature,
        precipitation |-> weather.precipitation,
        windspeed |-> RoundUniform(50, 250, Draw(UnitDraws, r)),
        weather_code |-> IF weather.rain_category # "none" THEN 61 ELSE 0,
        weather_desc |-> IF weather.rain_category # "none"
                         THEN "Hujan" ELSE "Cerah",
        rain_category |-> weather.rain_category] >>

\* The weather records of one slot at minute 0: one per location, each with
\* its own windspeed draw
GenWeatherRecords(current_time, weather, r) ==
    [i \in 1..Len(LOCATIONS) |->
        [timestamp |-> Strftime(current_time), location |-> LOCATIONS[i],
         temperature |-> weather.temperature,
         precipitation |-> weather.precipitation,
         windspeed |-> RoundUniform(50, 250, Draw(UnitDraws, RngSkip(r, i - 1))),
         weather_code |-> IF weather.rain_category # "none" THEN 61 ELSE 0,
         weather_desc |-> IF weather.rain_category # "none"
                          THEN "Hujan" ELSE "Cerah",
         rain_category |-> weather.rain_category]]

\* datetime.replace(hour=h, minute=m, second=s): the date and the fraction of
\* a second are kept
ReplaceTime(t, h, m, s) ==
    (t \div TicksPerDay) * TicksPerDay
        + ((h * 60 + m) * 60 + s) * TicksPerSecond + (t % TicksPerSecond)

\* A day's walk that starts at the time of day of current_date
DayStartKeepsTime(current_date_) == current_date_

\* current_time before the first slot of a day
DayStart(current_date_) == ReplaceTime(current_date_, 0, 0, 0)

\* An end of day at 23:00:00
EndOfDayLastHour(current_date_) == ReplaceTime(current_date_, 23, 0, 0)

\* end_of_day
EndOfDay(current_date_) == ReplaceTime(current_date_, 23, 59, 59)

\* timedelta(minutes=DATA_INTERVAL_MINUTES)
SlotDelta == DATA_INTERVAL_MINUTES * 60 * TicksPerSecond

\* The locals of the inner loop when a day's walk starts in generator state r
DayBegin(current_date_, r) ==
    [current_time |-> DayStart(current_date_), rng |-> r,
     weather_cache |-> <<>>, traffic |-> <<>>, weather |-> <<>>]

\* The test of "while current_time <= end_of_day and current_time < now"
InDay(current_time, end_of_day, now_) ==
    current_time <= end_of_day /\ current_time < now_

\* An inner loop body that simulates the weather on every slot and never
\* reads the cache
WalkSlotNoCache(st, day_of_week) ==
    LET hour == HourOf(st.current_time)
        weather == simulate_historical_weather(hour, day_of_week, st.rng)
        r1 == RngSkip(st.rng, WeatherDraws(hour, st.rng))
        r2 == RngSkip(r1, 3 * Len(LOCATIONS))
        on_the_hour == MinuteOf(st.current_time) = 0
    IN  [current_time |-> st.current_time + SlotDelta,
         rng |-> IF on_the_hour THEN RngSkip(r2, Len(LOCATIONS)) ELSE r2,
         weather_cache |-> st.weather_cache,
         traffic |-> st.traffic
                        \o GenSlotRecords(st.current_time, weather,
                                          day_of_week, r1),
         weather |-> IF on_the_hour
                     THEN st.weather
                              \o GenWeatherRecords(st.current_time, weather, r2)
                     ELSE st.weather]

\* The body of the inner loop for the slot st.current_time: the hour's weather
\* from the cache or simulated, one traffic record per location, at minute 0
\* one weather record per location, and the step to the next slot.
WalkSlot(st, day_of_week) ==
    LET hour == HourOf(st.current_time)
        cached == hour \in DOMAIN st.weather_cache
        weather == IF cached THEN st.weather_cache[hour]
                   ELSE simulate_historical_weather(hour, day_of_week, st.rng)
        r1 == IF cached THEN st.rng
              ELSE RngSkip(st.rng, WeatherDraws(hour, st.rng))
        r2 == RngSkip(r1, 3 * Len(LOCATIONS))
        on_the_hour == MinuteOf(st.current_time) = 0
    IN  [current_time |-> st.current_time + SlotDelta,
         rng |-> IF on_the_hour THEN RngSkip(r2, Len(LOCATIONS)) ELSE r2,
         weather_cache |-> IF cached THEN st.weather_cache
                           ELSE st.weather_cache @@ (hour :> weather),
         traffic |-> st.traffic
                        \o GenSlotRecords(st.current_time, weather,
                                          day_of_week, r1),
         weather |-> IF on_the_hour
                     THEN st.weather
                              \o GenWeatherRecords(st.current_time, weather, r2)
                     ELSE st.weather]

\* The iterations of the inner loop are evaluated an hour's worth at a time.
SlotsPerStride == 60 \div DATA_INTERVAL_MINUTES

\* At most n iterations of the inner loop, from the locals st.  (The locals
\* are bound as s, so that they are computed once however often they are
\* read.)
RECURSIVE WalkSlots(_, _, _, _, _)
WalkSlots(st, end_of_day, now_, day_of_week, n) ==
    CHOOSE after \in
        {IF n = 0 \/ ~InDay(s.current_time, end_of_day, now_) THEN s
         ELSE WalkSlots(WalkSlot(s, day_of_week), end_of_day, now_,
                        day_of_week, n - 1) : s \in {st}} : TRUE

\* The inner loop of one day, from the locals st to the locals it ends with
RECURSIVE WalkDay(_, _, _, _)
WalkDay(st, end_of_day, now_, day_of_week) ==
    CHOOSE after \in
        {IF ~InDay(s.current_time, end_of_day, now_) THEN s
         ELSE WalkDay(WalkSlots(s, end_of_day, now_, day_of_week,
                                SlotsPerStride),
                      end_of_day, now_, day_of_week) : s \in {st}} : TRUE

\* A threshold of 50000
FlushThresholdTenfold == 10 * 5000

\* "if len(traffic_batch) > 5000"
FlushThreshold == 5000

\* A chunk size of 2000
BatchSizeDouble == 2 * 1000

\* The size of a weather chunk
batch_size == 1000

\* generate_historical_data up to its day loop
GenStart ==
    /\ g_pc = "idle"
    /\ e_pc = "idle"
    /\ g_now' = now
    /\ current_date' = now - historical_days * TicksPerDay
    /\ traffic_batch' = <<>>
    /\ weather_batch' = <<>>
    /\ total_expected' =
           historical_days * ((24 * 60) \div DATA_INTERVAL_MINUTES)
               * Len(LOCATIONS)
    /\ count' = 0
    /\ g_pc' = "days"
    /\ UNCHANGED <<call, now, rng, dbVars, engineVars, result, historical_days,
                   g_i, total_traffic, total_weather, appVars>>

\* A day loop that does not reset the batch after its flush
GenerateDayKeepsBatch ==
    /\ g_pc = "days"
    /\ current_date < g_now
    /\ \E walk \in {WalkDay(DayBegin(current_date, rng),
                            EndOfDay(current_date), g_now,
                            Weekday(current_date))} :
          LET batch == traffic_batch \o walk.traffic
          IN  /\ weather_batch' = weather_batch \o walk.weather
              /\ count' = count + Len(walk.traffic)
              /\ rng' = walk.rng
              /\ traffic_batch' = batch
              /\ IF Len(batch) > FlushThreshold
                 THEN insert_traffic_data(batch)
                 ELSE UNCHANGED <<traffic_data, traffic_seq>>
    /\ current_date' = current_date + TicksPerDay
    /\ UNCHANGED <<call, now, weather_data, weather_seq, engineVars, result,
                   historical_days, g_pc, g_now, total_expected, g_i,
                   total_traffic, total_weather, appVars>>

\* One iteration of "while current_date < now": the day's slots, the step to
\* the next day and the flush of a batch of more than 5000 records.
GenerateDay ==
    /\ g_pc = "days"
    /\ current_date < g_now
    /\ \E walk \in {WalkDay(DayBegin(current_date, rng),
                            EndOfDay(current_date), g_now,
                            Weekday(current_date))} :
          LET batch == traffic_batch \o walk.traffic
          IN  /\ weather_batch' = weather_batch \o walk.weather
              /\ count' = count + Len(walk.traffic)
              /\ rng' = walk.rng
              /\ IF Len(batch) > FlushThreshold
                 THEN /\ insert_traffic_data(batch)
                      /\ traffic_batch' = <<>>
                 ELSE /\ traffic_batch' = batch
                      /\ UNCHANGED <<traffic_data, traffic_seq>>
    /\ current_date' = current_date + TicksPerDay
    /\ UNCHANGED <<call, now, weather_data, weather_seq, engineVars, result,
                   historical_days, g_pc, g_now, total_expected, g_i,
                   total_traffic, total_weather, appVars>>

\* The day loop ends: "if traffic_batch:" inserts what is left.
FlushRemainder ==
    /\ g_pc = "days"
    /\ ~(current_date < g_now)
    /\ insert_traffic_data(traffic_batch)
    /\ g_i' = 0
    /\ g_pc' = "weather"
    /\ UNCHANGED <<call, now, rng, weather_data, weather_seq, engineVars,
                   result, historical_days, g_now, current_date, traffic_batch,
                   weather_batch, total_expected, count, total_traffic,
                   total_weather, appVars>>

\* One iteration of "for i in range(0, len(weather_batch), batch_size)"
InsertWeatherChunk ==
    /\ g_pc = "weather"
    /\ g_i < Len(weather_batch)
    /\ insert_weather_list(
           SubSeq(weather_batch, g_i + 1,
                  Min(g_i + batch_size, Len(weather_batch))))
    /\ g_i' = g_i + batch_size
    /\ UNCHANGED <<call, now, rng, traffic_data, traffic_seq, engineVars,
                   result, historical_days, g_pc, g_now, current_date,
                   traffic_batch, weather_batch, total_expected, count,
                   total_traffic, total_weather, appVars>>

\* A summary after which the run does not return
SummaryWithoutReturn ==
    /\ g_pc = "weather"
    /\ ~(g_i < Len(weather_batch))
    /\ total_traffic' = get_traffic_count
    /\ total_weather' = get_weather_count
    /\ UNCHANGED <<call, now, rng, dbVars, engineVars, result, historical_days,
                   g_pc, g_now, current_date, traffic_batch, weather_batch,
                   total_expected, count, g_i, appVars>>

\* The summary: the two counts are read back, and the run is complete.
Summary ==
    /\ g_pc = "weather"
    /\ ~(g_i < Len(weather_batch))
    /\ total_traffic' = get_traffic_count
    /\ total_weather' = get_weather_count
    /\ g_pc' = "complete"
    /\ UNCHANGED <<call, now, rng, dbVars, engineVars, result, historical_days,
                   g_now, current_date, traffic_batch, weather_batch,
                   total_expected, count, g_i, appVars>>

\* insert_traffic_data raises (sqlite3.Error) in the flush at the end of a
\* day: the day has been walked, nothing of the batch is committed, and the
\* list is not reset.
GenerateDayWriteFails ==
    /\ g_pc = "days"
    /\ current_date < g_now
    /\ \E walk \in {WalkDay(DayBegin(current_date, rng),
                            EndOfDay(current_date), g_now,
                            Weekday(current_date))} :
          LET batch == traffic_batch \o walk.traffic
          IN  /\ Len(batch) > FlushThreshold
              /\ weather_batch' = weather_batch \o walk.weather
              /\ count' = count + Len(walk.traffic)
              /\ rng' = walk.rng
              /\ traffic_batch' = batch
    /\ current_date' = current_date + TicksPerDay
    /\ g_pc' = "insert_raised"
    /\ UNCHANGED <<call, now, dbVars, engineVars, result, historical_days,
                   g_now, total_expected, g_i, total_traffic, total_weather, appVars>>

\* insert_traffic_data raises in the flush after the day loop.
FlushRemainderWriteFails ==
    /\ g_pc = "days"
    /\ ~(current_date < g_now)
    /\ traffic_batch # <<>>
    /\ g_pc' = "insert_raised"
    /\ UNCHANGED <<call, now, rng, dbVars, engineVars, result, historical_days,
                   g_now, current_date, traffic_batch, weather_batch,
                   total_expected, count, g_i, total_traffic, total_weather, appVars>>

\* The executemany or the commit of a weather chunk raises (sqlite3.Error):
\* the chunk is not committed and the exception leaves
\* generate_historical_data, which has no handler.
InsertWeatherChunkWriteFails ==
    /\ g_pc = "weather"
    /\ g_i < Len(weather_batch)
    /\ g_pc' = "weather_raised"
    /\ UNCHANGED <<call, now, rng, dbVars, engineVars, result, historical_days,
                   g_now, current_date, traffic_batch, weather_batch,
                   total_expected, count, g_i, total_traffic, total_weather, appVars>>

\* A handler around the insert that swallows the exception: the day loop goes
\* on.
GenWriteErrorSwallowed ==
    /\ g_pc = "insert_raised"
    /\ g_pc' = "days"
    /\ UNCHANGED <<call, now, rng, dbVars, engineVars, result, historical_days,
                   g_now, current_date, traffic_batch, weather_batch,
                   total_expected, count, g_i, total_traffic, total_weather, appVars>>

\* Neither insert_traffic_data nor generate_historical_data has a handler:
\* the exception leaves generate_historical_data, whose locals are as they
\* were when the write failed.
GenWriteErrorPropagates ==
    /\ g_pc = "insert_raised"
    /\ g_pc' = "raised"
    /\ UNCHANGED <<call, now, rng, dbVars, engineVars, result, historical_days,
                   g_now, current_date, traffic_batch, weather_batch,
                   total_expected, count, g_i, total_traffic, total_weather, appVars>>

---------------------------------------------------------------------------
(* SpecBackfill: one run of generate_historical_data on an empty database *)

MaxDays == 21                \* HISTORICAL_DAYS of a backfill: 1..MaxDays

\* The day of the run: a Monday late enough for MaxDays + 1 days before it
BackfillDay == 7 * (2 + MaxDays \div 7)

\* The times of day a run starts at: 00:00:00, half a tick past 08:59:59, and
\* the last tick of the day
TimesOfDay ==
    {0, (8 * 3600 + 59 * 60 + 59) * TicksPerSecond + 1, TicksPerDay - 1}

InitBackfill ==
    /\ call = NoCall
    /\ now \in {BackfillDay * TicksPerDay + t : t \in TimesOfDay}
    /\ rng \in Seeds
    /\ InitDb
    /\ InitEngine
    /\ result = NoResult
    /\ historical_days \in 1..MaxDays
    /\ InitGen
    /\ InitApp

NextBackfill ==
    \/ GenStart
    \/ GenerateDay
    \/ GenerateDayWriteFails
    \/ FlushRemainder
    \/ FlushRemainderWriteFails
    \/ GenWriteErrorPropagates
    \/ InsertWeatherChunk
    \/ InsertWeatherChunkWriteFails
    \/ Summary

SpecBackfill == InitBackfill /\ [][NextBackfill]_vars

C16_WriteFailurePropagates ==
    [][ /\ g_pc' = "insert_raised" =>
              /\ traffic_data' = traffic_data
              /\ weather_data' = weather_data
        /\ g_pc = "insert_raised" =>
              /\ g_pc' = "raised"
              /\ count' = count
              /\ traffic_data' = traffic_data
              /\ weather_data' = weather_data
        /\ g_pc = "raised" =>
              /\ g_pc' = "raised"
              /\ count' = count
              /\ traffic_data' = traffic_data
              /\ weather_data' = weather_data
        /\ g_pc' \in {"insert_raised", "raised"} =>
              /\ Len(traffic_data') + Len(traffic_batch') = count'
              /\ weather_data' = <<>>
              /\ \A i \in 1..Len(traffic_data') : traffic_data'[i].id = i
      ]_vars

\* The second flush of a run failed and the failure has left
\* generate_historical_data: the rows of the first flush are stored, the
\* batch that failed is not.
C16_Witness ==
    /\ g_pc = "raised"
    /\ Len(traffic_data) > FlushThreshold
    /\ Len(traffic_batch) > 0
    /\ Len(traffic_data) + Len(traffic_batch) = count
    /\ weather_data = <<>>

\* C17: during a backfill the buffered traffic batch is flushed whenever its
\* size exceeds 5000 rows: at every point where the rows of a new time slot
\* are appended, the buffer holds at most 5000 rows from earlier slots.  (A
\* step that raises count walks one day; before the rows of the day's last
\* slot are appended the buffer holds all rows of the step but those.)
C17_FlushedAboveThreshold ==
    [][count' > count =>
           Len(traffic_batch) + (count' - count) - Len(LOCATIONS) <= 5000]_vars

\* C17 as amended: the size of the buffer is tested once per walked day, after
\* the day's last slot; a buffer of more than 5000 rows is then written as one
\* batch and emptied, a smaller one is kept.  The buffer holds at most 5000
\* rows whenever a day's walk begins, and at most 5000 rows and those of one
\* day within it.
C17_FlushedAtDayEnd ==
    [][count' > count =>
           LET held == Len(traffic_batch) + (count' - count)
           IN  /\ Len(traffic_batch) <= 5000
               /\ count' - count <= 288 * Len(LOCATIONS)
               /\ g_pc' = "days" =>
                     /\ Len(traffic_batch') <= 5000
                     /\ IF held > 5000
                        THEN /\ traffic_batch' = <<>>
                             /\ Len(traffic_data') = Len(traffic_data) + held
                        ELSE /\ Len(traffic_batch') = held
                             /\ traffic_data' = traffic_data]_vars

\* A batch of more than 5000 rows was flushed at the end of a day, and the
\* rows of later days are being buffered.
C17_Witness ==
    /\ g_pc = "days"
    /\ Len(traffic_data) > 5000
    /\ traffic_batch # <<>>
    /\ Len(traffic_data) + Len(traffic_batch) = count

\* 00:00:00 of the start day of the run (now - N days) and of the day of the
\* run, as formatted times
StartMidnight == ((g_now \div TicksPerDay) - historical_days) * SecondsPerDay
TodayMidnight == (g_now \div TicksPerDay) * SecondsPerDay

\* The first k interval slots from the formatted time first on
SlotStamps(first, k) ==
    {first + DATA_INTERVAL_MINUTES * 60 * i : i \in 0..(k - 1)}

\* The timestamp and location of every stored traffic row
StoredSlots ==
    {<<traffic_data[i].timestamp, traffic_data[i].location>> :
        i \in 1..Len(traffic_data)}

\* C18: the backfill walks the window from now - N days to now: for every
\* location it emits one traffic reading for every interval slot from 00:00 of
\* the start day up to but excluding now, the slots of the current calendar
\* day that lie before now included, and no reading whose timestamp is at or
\* after now.
C18_WalksUpToNow ==
    g_pc = "complete" =>
        LET stamps == {t \in SlotStamps(StartMidnight, (historical_days + 1) * 288) :
                          t * TicksPerSecond < g_now}
        IN  /\ StoredSlots = stamps \X LocationSet
            /\ Len(traffic_data) = Cardinality(stamps) * Len(LOCATIONS)
            /\ \A i \in 1..Len(traffic_data) :
                  traffic_data[i].timestamp * TicksPerSecond < g_now

\* C18 as amended: the backfill walks the N calendar days before the day of
\* the run: for every location it emits one traffic reading for every
\* interval slot from 00:00 of the start day (now - N days) to 23:55 of the
\* day before the run, none for the current calendar day, and so none whose
\* timestamp is at or after now.
C18_WalksWholeDaysBeforeToday ==
    g_pc = "complete" =>
        LET stamps == SlotStamps(StartMidnight, historical_days * 288)
        IN  /\ StoredSlots = stamps \X LocationSet
            /\ Len(traffic_data) = Cardinality(stamps) * Len(LOCATIONS)
            /\ \A i \in 1..Len(traffic_data) :
                  /\ traffic_data[i].timestamp < TodayMidnight
                  /\ traffic_data[i].timestamp * TicksPerSecond < g_now
                  /\ traffic_data[i].timestamp >= StartMidnight

\* A run of two days or more started after 08:59:59 has completed: its last
\* reading is of 23:55 of the day before, and none is of the day of the run.
C18_Witness ==
    /\ g_pc = "complete"
    /\ historical_days >= 2
    /\ g_now % TicksPerDay > 8 * 3600 * TicksPerSecond
    /\ traffic_data # <<>>
    /\ traffic_data[Len(traffic_data)].timestamp
           = TodayMidnight - DATA_INTERVAL_MINUTES * 60
    /\ traffic_data[1].timestamp = StartMidnight

\* The position of a location in LOCATIONS
LocationIndex(location) ==
    CHOOSE k \in 1..Len(LOCATIONS) : LOCATIONS[k] = location

\* The traffic rows td are the cnt records generated, each stored once, in the
\* order they were generated in (slot after slot, the locations of a slot in
\* the order of LOCATIONS), and the weather rows wd are the weather records wb,
\* each stored once and in order.
PersistedOnce(td, wd, wb, cnt) ==
    /\ Len(td) = cnt
    /\ \A i \in 1..Len(td) : td[i].id = i
    /\ \A i \in 1..(Len(td) - 1) :
          \/ td[i].timestamp < td[i + 1].timestamp
          \/ /\ td[i].timestamp = td[i + 1].timestamp
             /\ LocationIndex(td[i].location) < LocationIndex(td[i + 1].location)
    /\ Len(wd) = Len(wb)
    /\ \A k \in 1..Len(wd) : wd[k].id = k /\ WithoutId(wd[k]) = wb[k]

\* C19: when a backfill run completes, every traffic row and every weather
\* row it generated has been stored exactly once (none lost, none written
\* twice), the traffic buffer is empty, the traffic rows were written in the
\* order of generation, and every weather write carried at most 1000 rows.
C19_PersistedOnceBufferEmpty ==
    [][ /\ Len(weather_data') - Len(weather_data) <= 1000
        /\ (g_pc' = "complete" /\ g_pc # "complete") =>
              /\ PersistedOnce(traffic_data', weather_data', weather_batch', count')
              /\ traffic_batch' = <<>>
      ]_vars

\* C19 as amended: when a backfill run completes, every traffic row and every
\* weather row it generated has been stored exactly once, the traffic buffer
\* holds no row that is not stored (it is emptied by the flushes of the day
\* loop, but still holds the rows of the final flush), the traffic rows were
\* written in the order of generation, and every weather write carried at
\* most 1000 rows.
C19_PersistedOnce ==
    [][ /\ Len(weather_data') - Len(weather_data) <= 1000
        /\ (g_pc' = "complete" /\ g_pc # "complete") =>
              /\ PersistedOnce(traffic_data', weather_data', weather_batch', count')
              /\ Len(traffic_batch') <= Len(traffic_data')
              /\ LastInserted(traffic_data', Len(traffic_batch')) = traffic_batch'
      ]_vars

\* A run has completed that flushed a batch in its day loop, wrote the rest in
\* the final flush and wrote more than 1000 weather rows.
C19_Witness ==
    /\ g_pc = "complete"
    /\ Len(weather_data) > 1000
    /\ traffic_batch # <<>>
    /\ Len(traffic_data) > Len(traffic_batch)
    /\ Len(traffic_data) = count

\* The weather row stored first for the day and hour of the traffic row at
\* position i: the rows of a completed backfill lie hour after hour, an hour
\* having one weather row and 60 / DATA_INTERVAL_MINUTES traffic rows per
\* location.
HourWeatherRow(i) ==
    weather_data[((i - 1) \div (Len(LOCATIONS) * SlotsPerStride))
                     * Len(LOCATIONS) + 1]

\* C20: in a backfill the weather is simulated once per hour of a day and
\* used for every slot and every location of that hour: each day and hour has
\* one group of weather rows, one row per location, all with the same
\* simulated weather; every traffic row of that day and hour has the
\* rain_factor that RAIN_IMPACT gives for the rain_category of those weather
\* rows; and a day's walk starts with an empty cache.
C20_HourlyWeatherReused ==
    /\ DayBegin(current_date, rng).weather_cache = <<>>
    /\ g_pc = "complete" =>
          /\ Len(traffic_data) = Len(weather_data) * SlotsPerStride
          /\ \A i \in 1..Len(traffic_data) :
                /\ HourWeatherRow(i).timestamp \div 3600
                       = traffic_data[i].timestamp \div 3600
                /\ traffic_data[i].rain_factor
                       = RainImpactGet(HourWeatherRow(i).rain_category)
          /\ \A k \in 1..Len(weather_data) :
                LET first == weather_data[((k - 1) \div Len(LOCATIONS))
                                              * Len(LOCATIONS) + 1]
                IN  /\ weather_data[k].timestamp = first.timestamp
                    /\ weather_data[k].timestamp % 3600 = 0
                    /\ weather_data[k].rain_category = first.rain_category
                    /\ weather_data[k].precipitation = first.precipitation
                    /\ weather_data[k].temperature = first.temperature
                    /\ weather_data[k].location
                           = LOCATIONS[((k - 1) % Len(LOCATIONS)) + 1]
          /\ \A k \in 1..(Len(weather_data) - Len(LOCATIONS)) :
                weather_data[k + Len(LOCATIONS)].timestamp
                    = weather_data[k].timestamp + 3600

\* A backfill has completed in which some hour had rain, so that its traffic
\* rows carry a rain_factor above 1.0, and in which the same hour of two
\* consecutive days has two different rain categories.
C20_Witness ==
    /\ g_pc = "complete"
    /\ \E i \in 1..Len(traffic_data) :
          /\ traffic_data[i].rain_factor > 10
          /\ traffic_data[i].timestamp % 3600 # 0
    /\ \E k \in 1..(Len(weather_data) - 24 * Len(LOCATIONS)) :
          weather_data[k].rain_category
              # weather_data[k + 24 * Len(LOCATIONS)].rain_category

\* The weather row a completed backfill is to hold for the hour number h of
\* its window (0 is 00:00 of the start day) and the location number j
WeatherRowOf(h, j) == weather_data[h * Len(LOCATIONS) + j]

\* C21: the backfill emits weather readings only on the slots at minute 0,
\* one per location: while it runs, the weather records collected are one per
\* location for each hour begun, all on the hour; when it has completed, the
\* weather table holds exactly one row for every day, hour and location of
\* the window, its timestamp on the hour, and the rows of one hour agree in
\* temperature, precipitation and rain_category.
C21_WeatherOnTheHour ==
    /\ g_pc \in {"days", "weather", "complete"} =>
          /\ Len(weather_batch) * SlotsPerStride = count
          /\ \A k \in 1..Len(weather_batch) :
                weather_batch[k].timestamp % 3600 = 0
    /\ g_pc = "complete" =>
          /\ Len(weather_data) = historical_days * 24 * Len(LOCATIONS)
          /\ \A h \in 0..(historical_days * 24 - 1) :
                \A j \in 1..Len(LOCATIONS) :
                    /\ WeatherRowOf(h, j).timestamp = StartMidnight + 3600 * h
                    /\ WeatherRowOf(h, j).location = LOCATIONS[j]
                    /\ WeatherRowOf(h, j).temperature
                           = WeatherRowOf(h, 1).temperature
                    /\ WeatherRowOf(h, j).precipitation
                           = WeatherRowOf(h, 1).precipitation
                    /\ WeatherRowOf(h, j).rain_category
                           = WeatherRowOf(h, 1).rain_category

\* A backfill of two days or more has completed, with an hour whose weather
\* rows differ between two locations in windspeed only.
C21_Witness ==
    /\ g_pc = "complete"
    /\ historical_days >= 2
    /\ Len(LOCATIONS) >= 2
    /\ \E h \in 0..(historical_days * 24 - 1) :
          /\ WeatherRowOf(h, 1).windspeed # WeatherRowOf(h, 2).windspeed
          /\ WeatherRowOf(h, 1).precipitation > 0

\* The band of temperatures for the hour h, in tenths of a degree, with the
\* hours 10, 15 and 20 in the band they are the lower bound of
HalfOpenTemperatureBand(h) ==
    IF 5 <= h /\ h < 10 THEN <<250, 290>>
    ELSE IF 10 <= h /\ h < 15 THEN <<290, 330>>
    ELSE IF 15 <= h /\ h < 20 THEN <<270, 310>>
    ELSE <<240, 280>>

\* The temperature of the weather record row lies in the band of its hour
InHalfOpenBand(row) ==
    LET band == HalfOpenTemperatureBand(HourOfTimestamp(row.timestamp))
    IN  band[1] <= row.temperature /\ row.temperature <= band[2]

\* C22: for every hour h of 0..23 simulate_historical_weather draws the
\* temperature from 25-29 C for 5 <= h < 10, from 29-33 C for 10 <= h < 15,
\* from 27-31 C for 15 <= h < 20 and from 24-28 C for every other hour.
C22_TemperatureBands ==
    \A k \in 1..Len(weather_batch) : InHalfOpenBand(weather_batch[k])

\* The same for the hours other than 10, 15 and 20
C22_TemperatureBandsInside ==
    \A k \in 1..Len(weather_batch) :
        HourOfTimestamp(weather_batch[k].timestamp) \notin {10, 15, 20}
            => InHalfOpenBand(weather_batch[k])

\* The record a is generated before the record b: an earlier slot, or the
\* same slot and an earlier location of LOCATIONS
GeneratedBefore(a, b) ==
    \/ a.timestamp < b.timestamp
    \/ /\ a.timestamp = b.timestamp
       /\ LocationIndex(a.location) < LocationIndex(b.location)

\* The records rows are in the order of generation, none twice
InGenerationOrder(rows) ==
    \A i \in 1..(Len(rows) - 1) : GeneratedBefore(rows[i], rows[i + 1])

\* The final flush of the traffic buffer has been made
FinalFlushDone == g_pc \in {"weather", "weather_raised", "complete"}

\* The records generated that no insert has stored: the buffer, until the
\* final flush
Unflushed == IF FinalFlushDone THEN <<>> ELSE traffic_batch

\* C28: wherever a backfill stops before it completes, by an interruption of
\* the process or by a failed write, every traffic row generated so far is
\* stored exactly once or is still in the buffer that has not been flushed;
\* the rows lost are those buffered since the last flush and no others; and
\* no weather row of the run is stored unless every traffic row of the run
\* has been flushed.
C28_PartialBatchLoss ==
    g_pc # "idle" =>
        /\ Len(traffic_data) + Len(Unflushed) = count
        /\ \A i \in 1..Len(traffic_data) : traffic_data[i].id = i
        /\ InGenerationOrder(traffic_data)
        /\ InGenerationOrder(Unflushed)
        /\ (traffic_data # <<>> /\ Unflushed # <<>>) =>
              GeneratedBefore(traffic_data[Len(traffic_data)], Unflushed[1])
        /\ FinalFlushDone =>
              /\ Len(traffic_batch) <= Len(traffic_data)
              /\ LastInserted(traffic_data, Len(traffic_batch)) = traffic_batch
        /\ weather_data # <<>> =>
              /\ FinalFlushDone
              /\ Len(traffic_data) = count
        /\ Len(weather_data) <= Len(weather_batch)
        /\ \A k \in 1..Len(weather_data) :
              weather_data[k].id = k /\ WithoutId(weather_data[k]) = weather_batch[k]

\* A backfill is in its day loop after a flush, with rows of later days in
\* its buffer: an interruption here loses the buffer and keeps the rows
\* flushed.
C28_Witness ==
    /\ g_pc = "days"
    /\ traffic_data # <<>>
    /\ traffic_batch # <<>>
    /\ Len(traffic_data) + Len(traffic_batch) = count
    /\ weather_data = <<>>

---------------------------------------------------------------------------
(* SpecBackfillRuns: a run of generate_historical_data whose writes all      *)
(* succeed.  The call is one sequential computation that is not suspended:   *)
(* whenever it has a next step, it takes it.                                 *)

NextBackfillRuns ==
    \/ GenStart
    \/ GenerateDay
    \/ FlushRemainder
    \/ InsertWeatherChunk
    \/ Summary

\* HISTORICAL_DAYS of these runs: one day, two days, and MaxDays days, which
\* need a flush in the day loop and two weather chunks
RunDays == {1, 2, MaxDays}

InitBackfillRuns ==
    /\ call = NoCall
    /\ now \in {BackfillDay * TicksPerDay + t : t \in TimesOfDay}
    /\ rng \in Seeds
    /\ InitDb
    /\ InitEngine
    /\ result = NoResult
    /\ historical_days \in RunDays
    /\ InitGen
    /\ InitApp

SpecBackfillRuns ==
    InitBackfillRuns /\ [][NextBackfillRuns]_vars /\ WF_vars(NextBackfillRuns)

\* A step of the run moves the cursor of the loop it is in forward, and the
\* run leaves the day loop by the final flush and the weather loop by the
\* summary.
CursorsAdvance ==
    /\ (g_pc = "days" /\ g_pc' = "days") =>
          /\ SlotDelta > 0
          /\ (count' - count) * SlotDelta = TicksPerDay * Len(LOCATIONS)
          /\ current_date' > current_date
          /\ current_date' - TicksPerDay < g_now
    /\ (g_pc = "weather" /\ g_pc' = "weather") => (g_i' > g_i)
    /\ (g_pc = "days" /\ g_pc' # "days") =>
          /\ g_pc' = "weather"
          /\ ~(current_date < g_now)
          /\ Len(traffic_data') = count
    /\ (g_pc = "weather" /\ g_pc' # "weather") =>
          /\ g_pc' = "complete"
          /\ Len(weather_data) = Len(weather_batch)

---------------------------------------------------------------------------
(* database.py: the SELECT queries behind the analytics *)

\* The orders of the positions of keys in which the keys do not decrease: a
\* sort that is not stable may leave equal keys in any of them
RECURSIVE OrderingsOf(_, _)
OrderingsOf(keys, rest) ==
    IF rest = {} THEN {<<>>}
    ELSE UNION {{<<i>> \o q : q \in OrderingsOf(keys, rest \ {i})} :
                   i \in {i \in rest : \A j \in rest : keys[i] <= keys[j]}}

Orderings(keys) == OrderingsOf(keys, 1..Len(keys))

\* The rows of a frame taken in the order p
Take(rows, p) == [i \in 1..Len(p) |-> rows[p[i]]]

\* SELECT ... ORDER BY timestamp DESC over rows: SQL leaves the order of rows
\* with equal timestamps open, so every such order is a possible DataFrame.
OrderByTimestampDesc(rows) ==
    {Take(rows, p) :
        p \in Orderings([i \in 1..Len(rows) |-> 0 - rows[i].timestamp])}

\* TrafficDatabase.get_all_traffic_data: the DataFrames it may return
get_all_traffic_data == OrderByTimestampDesc(traffic_data)

\* TrafficDatabase.get_traffic_by_location: the DataFrames it may return
get_traffic_by_location(location) ==
    OrderByTimestampDesc(
        SelectSeq(traffic_data, LAMBDA row : row.location = location))

---------------------------------------------------------------------------
(* analytics.py: TrafficAnalytics *)

\* pd.DataFrame(): the frame without rows
EmptyDataFrame == <<>>

\* df[columns]: the rows reduced to the named columns
Columns(df, columns) ==
    [i \in 1..Len(df) |-> [c \in columns |-> df[i][c]]]

\* The positions of df by descending vehicle_count, equal counts in the order
\* of df: the mergesort of nlargest's fast path, and keep="first".
StableDescending(df) ==
    CHOOSE p \in Orderings([i \in 1..Len(df) |-> 0 - df[i].vehicle_count]) :
        \A i, j \in 1..Len(df) :
            i < j /\ df[p[i]].vehicle_count = df[p[j]].vehicle_count
                => p[i] < p[j]

\* The positions of df in the orders sort_values("vehicle_count",
\* ascending=False) may give: its quicksort is not stable.
SortDescending(df) ==
    Orderings([i \in 1..Len(df) |-> 0 - df[i].vehicle_count])

\* df.nlargest(n, "vehicle_count"), the frames it may return: for n >= len(df)
\* pandas sorts the whole column with sort_values and takes head(n); for a
\* smaller n it selects the n largest with a stable sort.
nlargest(df, n) ==
    IF n <= 0 THEN {<<>>}
    ELSE IF n >= Len(df)
    THEN {SubSeq(Take(df, p), 1, Min(n, Len(df))) : p \in SortDescending(df)}
    ELSE {SubSeq(Take(df, StableDescending(df)), 1, n)}

\* The columns get_top_congestion returns
TopColumns ==
    {"timestamp", "location", "vehicle_count", "condition", "speed_kmh",
     "rain_factor"}

\* TrafficAnalytics.get_top_congestion on the frame df: the frames it may
\* return
get_top_congestion(df, top_n) ==
    IF df = <<>> THEN {EmptyDataFrame}
    ELSE {Columns(top, TopColumns) : top \in nlargest(df, top_n)}

\* pd.to_datetime of a formatted timestamp: the instant, in ticks
ToDatetime(timestamp) == timestamp * TicksPerSecond

\* The keys of LOCATIONS in the order groupby("location") sorts them
LocationsSorted ==
    <<"Jakarta Barat", "Jakarta Pusat", "Jakarta Selatan", "Jakarta Timur",
      "Jakarta Utara">>

\* The last element of a non-empty sequence
Last(q) == q[Len(q)]

\* The columns get_current_status returns
StatusColumns ==
    {"location", "vehicle_count", "condition", "speed_kmh", "rain_factor",
     "timestamp"}

\* groupby("location").first() in place of last()
GroupbyLocationFirst(sorted) ==
    LET present == SelectSeq(LocationsSorted,
                       LAMBDA l : \E i \in 1..Len(sorted) :
                                      sorted[i].location = l)
    IN  [k \in 1..Len(present) |->
            Head(SelectSeq(sorted, LAMBDA row : row.location = present[k]))]

\* groupby("location").last().reset_index(): for each location present, in
\* the order of the sorted keys, the last of its rows
GroupbyLocationLast(sorted) ==
    LET present == SelectSeq(LocationsSorted,
                       LAMBDA l : \E i \in 1..Len(sorted) :
                                      sorted[i].location = l)
    IN  [k \in 1..Len(present) |->
            Last(SelectSeq(sorted, LAMBDA row : row.location = present[k]))]

\* TrafficAnalytics.get_current_status on the frame df: the frames it may
\* return (sort_values("datetime") is a quicksort, not stable)
get_current_status(df) ==
    IF df = <<>> THEN {EmptyDataFrame}
    ELSE {Columns(GroupbyLocationLast(Take(df, p)), StatusColumns) :
             p \in Orderings([i \in 1..Len(df) |->
                                  ToDatetime(df[i].timestamp)])}

\* The sum of a sequence of numbers
RECURSIVE Sum(_)
Sum(q) == IF q = <<>> THEN 0 ELSE Head(q) + Sum(Tail(q))

\* df[column] as a sequence of values
Column(df, column) == [i \in 1..Len(df) |-> df[i][column]]

\* The largest and the smallest value of a non-empty sequence
MaxOf(q) == CHOOSE x \in SeqRange(q) : \A y \in SeqRange(q) : x >= y
MinOf(q) == CHOOSE x \in SeqRange(q) : \A y \in SeqRange(q) : x <= y

\* round(num / den, 1) for a num already in tenths, num >= 0: the nearest
\* tenth; a quotient halfway between two tenths is a binary float next to the
\* midpoint and may go either way.
Round1Of(num, den) ==
    LET q == num \div den
        r == num % den
    IN  IF 2 * r < den THEN {q}
        ELSE IF 2 * r > den THEN {q + 1}
        ELSE {q, q + 1}

\* round(df["vehicle_count"].mean(), 1) and round(df["speed_kmh"].mean(), 1),
\* in tenths
MeanVehicles(df) == Round1Of(10 * Sum(Column(df, "vehicle_count")), Len(df))
MeanSpeed(df) == Round1Of(Sum(Column(df, "speed_kmh")), Len(df))

\* The condition labels in the order mode() sorts them
ConditionsSorted == <<"Lancar", "Macet", "Padat", "Sangat Padat", "Sedang">>

\* The number of rows of df with the condition c
ConditionCount(df, c) == Len(SelectSeq(df, LAMBDA row : row.condition = c))

\* df["condition"].mode()[0]: the first, in sorted order, of the most
\* frequent labels
ModeCondition(df) ==
    LET best == CHOOSE i \in 1..Len(ConditionsSorted) :
                    /\ \A j \in 1..Len(ConditionsSorted) :
                           ConditionCount(df, ConditionsSorted[i])
                               >= ConditionCount(df, ConditionsSorted[j])
                    /\ \A j \in 1..(i - 1) :
                           ConditionCount(df, ConditionsSorted[j])
                               < ConditionCount(df, ConditionsSorted[i])
    IN  ConditionsSorted[best]

\* The stats dict of get_overall_stats for a frame with rows
OverallStats(df) ==
    {[total_records |-> Len(df),
      total_locations |-> Cardinality({df[i].location : i \in 1..Len(df)}),
      avg_vehicles |-> av,
      max_vehicles |-> MaxOf(Column(df, "vehicle_count")),
      min_vehicles |-> MinOf(Column(df, "vehicle_count")),
      avg_speed |-> as,
      most_common_condition |-> ModeCondition(df),
      peak_records |-> Sum(Column(df, "is_peak")),
      rainy_records |->
          Len(SelectSeq(df, LAMBDA row : row.rain_factor > 10))] :
        av \in MeanVehicles(df), as \in MeanSpeed(df)}

\* get_overall_stats without its test of df.empty: on a frame without rows
\* int() of the NaN maximum raises ValueError
GetOverallStatsNoEmptyTest(df) ==
    IF df = <<>> THEN {[raised |-> "ValueError"]} ELSE OverallStats(df)

\* TrafficAnalytics.get_overall_stats on the frame df: the values it may return
get_overall_stats(df) ==
    IF df = <<>> THEN {[error |-> "Tidak ada data"]} ELSE OverallStats(df)

\* The values of a column of df, in ascending order
SortedValues(df, column) ==
    LET vals == {df[i][column] : i \in 1..Len(df)}
    IN  CHOOSE q \in [1..Cardinality(vals) -> vals] :
            \A i, j \in 1..Cardinality(vals) : i < j => q[i] < q[j]

\* The frames whose k-th row is one of choices[k]
RECURSIVE FramesOf(_)
FramesOf(choices) ==
    IF choices = <<>> THEN {<<>>}
    ELSE {<<row>> \o rest :
             row \in Head(choices), rest \in FramesOf(Tail(choices))}

\* The aggregates with "sum" in place of "mean" for avg_vehicles
GroupAggregatesSum(group) ==
    {[avg_vehicles |-> 10 * Sum(Column(group, "vehicle_count")),
      max_vehicles |-> MaxOf(Column(group, "vehicle_count")),
      avg_speed |-> as, count |-> Len(group)] : as \in MeanSpeed(group)}

\* The aggregates get_hourly_pattern and get_rain_correlation take of a group
GroupAggregates(group) ==
    {[avg_vehicles |-> av,
      max_vehicles |-> MaxOf(Column(group, "vehicle_count")),
      avg_speed |-> as, count |-> Len(group)] :
        av \in MeanVehicles(group), as \in MeanSpeed(group)}

\* The argument of get_hourly_pattern when no location is given
NoLocation == "None"

\* TrafficAnalytics.get_hourly_pattern on the frame df it read
get_hourly_pattern(df) ==
    IF df = <<>> THEN {EmptyDataFrame}
    ELSE LET hours == SortedValues(df, "hour")
         IN  FramesOf([k \in 1..Len(hours) |->
                 {[hour |-> hours[k]] @@ agg :
                     agg \in GroupAggregates(
                         SelectSeq(df, LAMBDA row : row.hour = hours[k]))}])

\* A categorize_rain whose thresholds are exclusive
CategorizeRainExclusive(factor) ==
    IF factor < 10 THEN "Tidak Hujan"
    ELSE IF factor < 13 THEN "Hujan Ringan"
    ELSE IF factor < 16 THEN "Hujan Sedang"
    ELSE IF factor < 18 THEN "Hujan Lebat"
    ELSE "Hujan Ekstrem"

\* categorize_rain of get_rain_correlation; factor in tenths
categorize_rain(factor) ==
    IF factor <= 10 THEN "Tidak Hujan"
    ELSE IF factor <= 13 THEN "Hujan Ringan"
    ELSE IF factor <= 16 THEN "Hujan Sedang"
    ELSE IF factor <= 18 THEN "Hujan Lebat"
    ELSE "Hujan Ekstrem"

\* The rain labels in the order groupby("rain_category") sorts them
RainLabelsSorted ==
    <<"Hujan Ekstrem", "Hujan Lebat", "Hujan Ringan", "Hujan Sedang",
      "Tidak Hujan">>

\* df["rain_factor"].corr(df["vehicle_count"]), Pearson's coefficient, kept as
\* the exact terms it is made of: num / sqrt(vx * vy); nan when there are
\* fewer than two rows or one of the columns is constant
Correlation(df) ==
    LET n == Len(df)
        x == Column(df, "rain_factor")
        y == Column(df, "vehicle_count")
        sx == Sum(x)
        sy == Sum(y)
        sxy == Sum([i \in 1..n |-> x[i] * y[i]])
        vx == n * Sum([i \in 1..n |-> x[i] * x[i]]) - sx * sx
        vy == n * Sum([i \in 1..n |-> y[i] * y[i]]) - sy * sy
    IN  IF n < 2 \/ vx = 0 \/ vy = 0
        THEN [nan |-> TRUE, num |-> 0, vx |-> 0, vy |-> 0]
        ELSE [nan |-> FALSE, num |-> n * sxy - sx * sy, vx |-> vx, vy |-> vy]

\* a / b >= c / d for a, c >= 0 and b, d > 0, by the quotients and the
\* remainders
RECURSIVE FracAtLeast(_, _, _, _)
FracAtLeast(a, b, c, d) ==
    IF a \div b # c \div d THEN a \div b > c \div d
    ELSE IF c % d = 0 THEN TRUE
    ELSE IF a % b = 0 THEN FALSE
    ELSE FracAtLeast(d, c % d, b, a % b)

\* corr >= t for a threshold t > 0 in hundredths, that is
\* (100 * num)^2 >= t^2 * vx * vy with num > 0; a comparison with NaN is False
CorrAtLeast(corr, t) ==
    /\ ~corr.nan
    /\ corr.num > 0
    /\ FracAtLeast(100 * corr.num, t * corr.vx, t * corr.vy, 100 * corr.num)

\* An interpretation by the size of the coefficient, abs(corr), so that a
\* negative correlation is banded like a positive one
InterpretCorrelationAbs(corr) ==
    LET size == [corr EXCEPT !.num = IF corr.num < 0 THEN 0 - corr.num
                                     ELSE corr.num]
    IN  IF CorrAtLeast(size, 70)
        THEN "Korelasi Kuat Positif: Hujan sangat mempengaruhi kemacetan"
        ELSE IF CorrAtLeast(size, 40)
        THEN "Korelasi Sedang Positif: Hujan cukup mempengaruhi kemacetan"
        ELSE IF CorrAtLeast(size, 20)
        THEN "Korelasi Lemah Positif: Hujan sedikit mempengaruhi kemacetan"
        ELSE "Korelasi Sangat Lemah: Hujan tidak terlalu mempengaruhi"

\* TrafficAnalytics._interpret_correlation
_interpret_correlation(corr) ==
    IF CorrAtLeast(corr, 70)
    THEN "Korelasi Kuat Positif: Hujan sangat mempengaruhi kemacetan"
    ELSE IF CorrAtLeast(corr, 40)
    THEN "Korelasi Sedang Positif: Hujan cukup mempengaruhi kemacetan"
    ELSE IF CorrAtLeast(corr, 20)
    THEN "Korelasi Lemah Positif: Hujan sedikit mempengaruhi kemacetan"
    ELSE "Korelasi Sangat Lemah: Hujan tidak terlalu mempengaruhi"

\* TrafficAnalytics.get_rain_correlation on the frame df it read
get_rain_correlation(df) ==
    IF df = <<>> THEN {[error |-> "Tidak ada data"]}
    ELSE LET labels == SelectSeq(RainLabelsSorted,
                           LAMBDA l : \E i \in 1..Len(df) :
                                          categorize_rain(df[i].rain_factor) = l)
             stats == FramesOf([k \in 1..Len(labels) |->
                          {[rain_category |-> labels[k]] @@ agg :
                              agg \in GroupAggregates(
                                  SelectSeq(df, LAMBDA row :
                                      categorize_rain(row.rain_factor)
                                          = labels[k]))}])
         IN  {[correlation_coefficient |-> Correlation(df),
               stats_by_category |-> st,
               interpretation |-> _interpret_correlation(Correlation(df))] :
                  st \in stats}

\* The aggregates with macet_pct left a fraction: the "* 100" forgotten
LocationAggregatesFraction(location, group) ==
    LET macet_count ==
            Len(SelectSeq(group, LAMBDA row : row.condition = "Macet"))
    IN  {[location |-> location, avg_vehicles |-> av,
          max_vehicles |-> MaxOf(Column(group, "vehicle_count")),
          min_vehicles |-> MinOf(Column(group, "vehicle_count")),
          avg_speed |-> as, total_records |-> Len(group),
          macet_count |-> macet_count, macet_pct |-> pct] :
            av \in MeanVehicles(group), as \in MeanSpeed(group),
            pct \in Round1Of(10 * macet_count, Len(group))}

\* The aggregates get_location_comparison takes of the rows of one location
LocationAggregates(location, group) ==
    LET macet_count ==
            Len(SelectSeq(group, LAMBDA row : row.condition = "Macet"))
    IN  {[location |-> location, avg_vehicles |-> av,
          max_vehicles |-> MaxOf(Column(group, "vehicle_count")),
          min_vehicles |-> MinOf(Column(group, "vehicle_count")),
          avg_speed |-> as, total_records |-> Len(group),
          macet_count |-> macet_count, macet_pct |-> pct] :
            av \in MeanVehicles(group), as \in MeanSpeed(group),
            pct \in Round1Of(1000 * macet_count, Len(group))}

\* TrafficAnalytics.get_location_comparison on the frame df it read; the
\* final sort_values("avg_vehicles", ascending=False) is not stable
get_location_comparison(df) ==
    IF df = <<>> THEN {EmptyDataFrame}
    ELSE LET present == SelectSeq(LocationsSorted,
                            LAMBDA l : \E i \in 1..Len(df) : df[i].location = l)
             comparisons ==
                 FramesOf([k \in 1..Len(present) |->
                     LocationAggregates(present[k],
                         SelectSeq(df, LAMBDA row : row.location = present[k]))])
         IN  UNION {{Take(comparison, p) :
                        p \in Orderings([i \in 1..Len(comparison) |->
                                     0 - comparison[i].avg_vehicles])} :
                       comparison \in comparisons}

\* The loop of predict_traffic over TRAFFIC_THRESHOLDS.items(), from the i-th
\* item on: the label stays "Lancar" when no band holds the value
RECURSIVE PredictScan(_, _)
PredictScan(predicted_avg, i) ==
    IF i > Len(TRAFFIC_THRESHOLDS) THEN "Lancar"
    ELSE IF TRAFFIC_THRESHOLDS[i][2] <= predicted_avg
            /\ predicted_avg < TRAFFIC_THRESHOLDS[i][3]
         THEN TRAFFIC_THRESHOLDS[i][1]
         ELSE PredictScan(predicted_avg, i + 1)

\* The prediction of predict_traffic from the rows df_hour of the target hour.
\* With S the sum of the counts and V = n * (sum of squares) - S * S, the mean
\* is S / n and the sample standard deviation sqrt(V / (n * (n - 1))); int()
\* truncates.  For one row the deviation is NaN and int() raises ValueError.
Prediction(location, target_hour, df_hour) ==
    LET n == Len(df_hour)
        y == Column(df_hour, "vehicle_count")
        S == Sum(y)
        V == n * Sum([i \in 1..n |-> y[i] * y[i]]) - S * S
        predicted_avg == S \div n
        below == {k \in 0..predicted_avg :
                     (S - k * n) * (S - k * n) * (n - 1) >= n * V}
        above == {k \in predicted_avg..(2 * MaxOf(y) + 1) :
                     \/ k * n <= S
                     \/ (k * n - S) * (k * n - S) * (n - 1) <= n * V}
    IN  IF n = 1 THEN {[raised |-> "ValueError"]}
        ELSE {[location |-> location, target_hour |-> target_hour,
               predicted_vehicles_min |->
                   IF below = {} THEN 0
                   ELSE CHOOSE k \in below : \A m \in below : k >= m,
               predicted_vehicles_avg |-> predicted_avg,
               predicted_vehicles_max |->
                   CHOOSE k \in above : \A m \in above : k >= m,
               predicted_speed |-> speed,
               predicted_condition |-> PredictScan(predicted_avg, 1),
               confidence |-> "Sedang (berbasis rata-rata historis)",
               samples_used |-> n] : speed \in MeanSpeed(df_hour)}

\* TrafficAnalytics.predict_traffic on the frame df read for the location
predict_traffic(df, location, target_hour) ==
    IF df = <<>> THEN {[error |-> "Tidak ada data historis"]}
    ELSE LET df_hour == SelectSeq(df, LAMBDA row : row.hour = target_hour)
         IN  IF df_hour = <<>>
             THEN {[error |-> "Tidak ada data untuk jam",
                    target_hour |-> target_hour]}
             ELSE Prediction(location, target_hour, df_hour)

\* One half of the result of get_weekday_vs_weekend
Partition(label, rows) ==
    {[label |-> label, avg_vehicles |-> av, avg_speed |-> as,
      total_records |-> Len(rows)] :
        av \in IF rows = <<>> THEN {0} ELSE MeanVehicles(rows),
        as \in IF rows = <<>> THEN {0} ELSE MeanSpeed(rows)}

\* A split in which Saturday counts as a working day as well
GetWeekdayVsWeekendSaturdayWorks(df) ==
    IF df = <<>> THEN {[error |-> "Tidak ada data"]}
    ELSE LET day_of_week(row) == Weekday(ToDatetime(row.timestamp))
             weekday == SelectSeq(df, LAMBDA row : day_of_week(row) < 6)
             weekend == SelectSeq(df, LAMBDA row : day_of_week(row) >= 5)
         IN  {[weekday |-> wd, weekend |-> we] :
                 wd \in Partition("Hari Kerja (Sen-Jum)", weekday),
                 we \in Partition("Weekend (Sab-Min)", weekend)}

\* TrafficAnalytics.get_weekday_vs_weekend on the frame df it read
get_weekday_vs_weekend(df) ==
    IF df = <<>> THEN {[error |-> "Tidak ada data"]}
    ELSE LET day_of_week(row) == Weekday(ToDatetime(row.timestamp))
             weekday == SelectSeq(df, LAMBDA row : day_of_week(row) < 5)
             weekend == SelectSeq(df, LAMBDA row : day_of_week(row) >= 5)
         IN  {[weekday |-> wd, weekend |-> we] :
                 wd \in Partition("Hari Kerja (Sen-Jum)", weekday),
                 we \in Partition("Weekend (Sab-Min)", weekend)}

---------------------------------------------------------------------------
(* The analytics queries as operations on the database *)

MaxTopN == 3                 \* top_n given to get_top_congestion: 1..MaxTopN
MaxRows == 5                 \* rows of a stored dataset drawn for a query

\* The hours predict_traffic is asked about
TargetHours == {8, 9, 17}

\* A query may start: no cycle is running and the last answer was taken.
QueryReady == e_pc = "idle" /\ result.op = "none"

\* The query op(arg) answers value.
Answer(op, arg, value) ==
    /\ result' = [op |-> op, arg |-> arg, value |-> value]
    /\ UNCHANGED <<call, now, rng, dbVars, engineVars, genVars, appVars>>

GetOverallStats ==
    /\ QueryReady
    /\ \E df \in get_all_traffic_data : \E value \in get_overall_stats(df) :
          Answer("get_overall_stats", <<>>, value)

\* get_hourly_pattern(location): "if location:" chooses the query
GetHourlyPattern ==
    /\ QueryReady
    /\ \E location \in LocationSet \cup {NoLocation} :
       \E df \in IF location # NoLocation
                 THEN get_traffic_by_location(location)
                 ELSE get_all_traffic_data :
       \E value \in get_hourly_pattern(df) :
          Answer("get_hourly_pattern", <<location>>, value)

GetRainCorrelation ==
    /\ QueryReady
    /\ \E df \in get_all_traffic_data : \E value \in get_rain_correlation(df) :
          Answer("get_rain_correlation", <<>>, value)

GetLocationComparison ==
    /\ QueryReady
    /\ \E df \in get_all_traffic_data :
       \E value \in get_location_comparison(df) :
          Answer("get_location_comparison", <<>>, value)

PredictTraffic ==
    /\ QueryReady
    /\ \E location \in LocationSet, target_hour \in TargetHours :
       \E df \in get_traffic_by_location(location) :
       \E value \in predict_traffic(df, location, target_hour) :
          Answer("predict_traffic", <<location, target_hour>>, value)

GetWeekdayVsWeekend ==
    /\ QueryReady
    /\ \E df \in get_all_traffic_data :
       \E value \in get_weekday_vs_weekend(df) :
          Answer("get_weekday_vs_weekend", <<>>, value)

GetTopCongestion ==
    /\ QueryReady
    /\ \E top_n \in 1..MaxTopN :
       \E df \in get_all_traffic_data :
       \E value \in get_top_congestion(df, top_n) :
          Answer("get_top_congestion", <<top_n>>, value)

GetCurrentStatus ==
    /\ QueryReady
    /\ \E df \in get_all_traffic_data : \E value \in get_current_status(df) :
          Answer("get_current_status", <<>>, value)

\* The caller has taken the answer.
TakeAnswer ==
    /\ result.op # "none"
    /\ result' = NoResult
    /\ UNCHANGED <<call, now, rng, dbVars, engineVars, genVars, appVars>>

---------------------------------------------------------------------------
(* SpecAnalytics: simulation cycles, backfill batches and clear_all_data,   *)
(* with the queries asked in between                                        *)

NextAnalytics ==
    \/ (result.op = "none" /\ Next)
    \/ GetOverallStats
    \/ GetHourlyPattern
    \/ GetRainCorrelation
    \/ GetLocationComparison
    \/ PredictTraffic
    \/ GetWeekdayVsWeekend
    \/ GetTopCongestion
    \/ GetCurrentStatus
    \/ TakeAnswer

SpecAnalytics == Init /\ [][NextAnalytics]_vars

\* The queries that answer with a dict, and those that answer with a DataFrame
DictQueries ==
    {"get_overall_stats", "get_rain_correlation", "get_weekday_vs_weekend",
     "predict_traffic"}
FrameQueries ==
    {"get_hourly_pattern", "get_location_comparison", "get_top_congestion",
     "get_current_status"}

\* C8: on an empty traffic table (initially or after clear_all_data) every
\* query can be asked and answers with its empty indicator, never with an
\* exception: get_overall_stats, get_rain_correlation and
\* get_weekday_vs_weekend with the error payload, predict_traffic with an
\* error payload for every location and hour, and get_hourly_pattern,
\* get_location_comparison, get_top_congestion and get_current_status with
\* an empty table.
C8_EmptyDatasetIndicators ==
    traffic_data = <<>> =>
        /\ QueryReady =>
              /\ ENABLED GetOverallStats
              /\ ENABLED GetHourlyPattern
              /\ ENABLED GetRainCorrelation
              /\ ENABLED GetLocationComparison
              /\ ENABLED PredictTraffic
              /\ ENABLED GetWeekdayVsWeekend
              /\ ENABLED GetTopCongestion
              /\ ENABLED GetCurrentStatus
        /\ result.op \in DictQueries =>
              /\ DOMAIN result.value \subseteq {"error", "target_hour"}
              /\ "error" \in DOMAIN result.value
              /\ result.op # "predict_traffic"
                    => result.value = [error |-> "Tidak ada data"]
        /\ result.op \in FrameQueries => result.value = EmptyDataFrame

\* predict_traffic has answered on a table emptied by clear_all_data.
C8_Witness ==
    /\ traffic_data = <<>>
    /\ traffic_seq > 0
    /\ result.op = "predict_traffic"
    /\ "error" \in DOMAIN result.value

\* The position of a location name in alphabetical order
NameRank(location) ==
    CHOOSE i \in 1..Len(LocationsSorted) : LocationsSorted[i] = location

\* C10: get_current_status returns exactly one row per distinct location of
\* the traffic table; the row carries the values of a reading of that
\* location than which none has a greater timestamp (of two readings with
\* T1 < T2 only the one of T2), and the rows are in the order of the location
\* names.
C10_CurrentStatus ==
    result.op = "get_current_status" =>
        LET latest == result.value
            rows == traffic_data
            present == {rows[i].location : i \in 1..Len(rows)}
        IN  /\ Len(latest) = Cardinality(present)
            /\ {latest[k].location : k \in 1..Len(latest)} = present
            /\ \A k \in 1..Len(latest) :
                  \E i \in 1..Len(rows) :
                      /\ \A c \in StatusColumns : latest[k][c] = rows[i][c]
                      /\ \A j \in 1..Len(rows) :
                            rows[j].location = rows[i].location
                                => rows[j].timestamp <= rows[i].timestamp
            /\ \A k, m \in 1..Len(latest) :
                  k < m => NameRank(latest[k].location)
                               < NameRank(latest[m].location)

\* The status was asked with two readings of one location at T1 < T2 stored,
\* and both locations present.
C10_Witness ==
    /\ result.op = "get_current_status"
    /\ Len(result.value) = 2
    /\ \E i, j \in 1..Len(traffic_data) :
          /\ traffic_data[i].location = traffic_data[j].location
          /\ traffic_data[i].timestamp < traffic_data[j].timestamp

---------------------------------------------------------------------------
(* SpecTopK: get_top_congestion asked on stored datasets of up to MaxRows   *)
(* rows                                                                     *)

\* The row insert_traffic_data stores for a reading of vehicle_count vehicles
\* taken without rain at the formatted time timestamp
StoredReading(id, timestamp, location, vehicle_count) ==
    [id |-> id, timestamp |-> timestamp, location |-> location,
     vehicle_count |-> vehicle_count,
     condition |-> get_traffic_condition(vehicle_count),
     speed_kmh |-> calculate_speed(vehicle_count, 10, 0),
     hour |-> HourOfTimestamp(timestamp),
     is_peak |-> IF is_peak_hour(HourOfTimestamp(timestamp)) THEN 1 ELSE 0,
     rain_factor |-> 10, data_source |-> "real_time_simulated"]

\* The vehicle counts of the stored readings
TopCounts == {10, 30, 50, 70, 90}

\* How the timestamps of the stored rows run in rowid order: from older to
\* newer (cycles), from newer to older, or in pairs of equal timestamps
TimestampPatterns == {"ascending", "descending", "pairs"}

\* The timestamp of the i-th stored row
RowTimestamp(pattern, i) ==
    CASE pattern = "ascending" -> Strftime(NowStart) + i
      [] pattern = "descending" -> Strftime(NowStart) - i
      [] OTHER -> Strftime(NowStart) + (i \div 2)

InitTopK ==
    /\ call = NoCall
    /\ now = NowStart
    /\ rng \in Seeds
    /\ \E n \in 0..MaxRows :
       \E counts \in [1..n -> TopCounts], pattern \in TimestampPatterns :
          traffic_data =
              [i \in 1..n |->
                  StoredReading(i, RowTimestamp(pattern, i),
                                LOCATIONS[((i - 1) % Len(LOCATIONS)) + 1],
                                counts[i])]
    /\ traffic_seq = Len(traffic_data)
    /\ weather_data = <<>>
    /\ weather_seq = 0
    /\ InitEngine
    /\ result = NoResult
    /\ historical_days = HISTORICAL_DAYS
    /\ InitGen
    /\ InitApp

NextTopK ==
    \/ GetTopCongestion
    \/ TakeAnswer

SpecTopK == InitTopK /\ [][NextTopK]_vars

\* C9: for a dataset of n rows read from storage in some order and any
\* K >= 1, get_top_congestion(K) returns min(K, n) rows in non-increasing
\* order of vehicle_count, every returned row has a count >= that of every row
\* not returned, and rows with equal counts appear, and are cut off, in the
\* order in which they were read; counts [10,90,50,30,70] with K = 3 give
\* [90,70,50].
C9_TopCongestion ==
    result.op = "get_top_congestion" =>
        \E df \in get_all_traffic_data :
            LET top_n == result.arg[1]
                top == result.value
                kept == Min(top_n, Len(df))
            IN  /\ Len(top) = kept
                /\ \A i, j \in 1..Len(top) :
                      i < j => top[i].vehicle_count >= top[j].vehicle_count
                /\ top = Columns(SubSeq(Take(df, StableDescending(df)), 1, kept),
                                 TopColumns)

---------------------------------------------------------------------------
(* Stored datasets: tables as a backfill leaves them, for the queries below *)

\* The row insert_traffic_data stores for a record generate_historical_data
\* built for vehicle_count vehicles under rain_factor at the formatted time
\* timestamp
StoredRow(id, timestamp, location, vehicle_count, rain_factor) ==
    [id |-> id, timestamp |-> timestamp, location |-> location,
     vehicle_count |-> vehicle_count,
     condition |-> get_condition(vehicle_count),
     speed_kmh |-> gen_calculate_speed(vehicle_count, rain_factor, 0),
     hour |-> HourOfTimestamp(timestamp),
     is_peak |-> GenIsPeak(HourOfTimestamp(timestamp)),
     rain_factor |-> rain_factor, data_source |-> "historical_generated"]

\* The formatted time of the i-th slot after hour o'clock on the Monday of
\* NowStart, the slot length taken as a minute
SlotTimestamp(hour, i) == 7 * SecondsPerDay + hour * 3600 + 60 * i

\* The location of the i-th stored row: the locations in turn
RowLocation(i) == LOCATIONS[((i - 1) % Len(LOCATIONS)) + 1]

\* No operation is running on a database whose traffic table was filled
\* before
InitStored ==
    /\ call = NoCall
    /\ now = NowStart
    /\ rng \in Seeds
    /\ traffic_seq = Len(traffic_data)
    /\ weather_data = <<>>
    /\ weather_seq = 0
    /\ InitEngine
    /\ result = NoResult
    /\ historical_days = HISTORICAL_DAYS
    /\ InitGen
    /\ InitApp

---------------------------------------------------------------------------
(* SpecHourly: get_hourly_pattern asked on stored datasets *)

\* The hours and the vehicle counts of the stored rows
HourlyHours == {7, 8}
HourlyCounts == {50, 100, 200, 205}

InitHourly ==
    /\ \E n \in 0..MaxRows :
       \E hours \in [1..n -> HourlyHours], counts \in [1..n -> HourlyCounts] :
          traffic_data =
              [i \in 1..n |->
                  StoredRow(i, SlotTimestamp(hours[i], i), RowLocation(i),
                            counts[i], 10)]
    /\ InitStored

NextHourly ==
    \/ GetHourlyPattern
    \/ TakeAnswer

SpecHourly == InitHourly /\ [][NextHourly]_vars

\* C11: get_hourly_pattern, on all rows or on the rows of the location given,
\* returns exactly one row per distinct hour of the selected rows, in ascending
\* order of the hour; its count is the number of selected rows of that hour
\* (the counts add up to the number of selected rows), its avg_vehicles their
\* mean to one decimal and its max_vehicles their maximum; counts 100 and 200
\* at hour 7 and 50 at hour 8 give hour 7 -> 150.0 / 2 and hour 8 -> 50.0 / 1.
C11_HourlyPattern ==
    result.op = "get_hourly_pattern" =>
        LET location == result.arg[1]
            selected == SelectSeq(traffic_data,
                            LAMBDA row : location = NoLocation
                                             \/ row.location = location)
            hours == {selected[i].hour : i \in 1..Len(selected)}
            hourly == result.value
            of(h) == SelectSeq(selected, LAMBDA row : row.hour = h)
            total(h) == Sum([i \in 1..Len(of(h)) |-> of(h)[i].vehicle_count])
        IN  /\ Len(hourly) = Cardinality(hours)
            /\ \A k, m \in 1..Len(hourly) : k < m => hourly[k].hour < hourly[m].hour
            /\ \A k \in 1..Len(hourly) :
                  LET h == hourly[k].hour
                      diff == hourly[k].avg_vehicles * Len(of(h)) - 10 * total(h)
                  IN  /\ h \in hours
                      /\ hourly[k].count = Len(of(h))
                      /\ 2 * diff <= Len(of(h)) /\ 0 - 2 * diff <= Len(of(h))
                      /\ \E i \in 1..Len(of(h)) :
                            hourly[k].max_vehicles = of(h)[i].vehicle_count
                      /\ \A i \in 1..Len(of(h)) :
                            hourly[k].max_vehicles >= of(h)[i].vehicle_count
            /\ Sum([k \in 1..Len(hourly) |-> hourly[k].count]) = Len(selected)
            /\ (/\ location = NoLocation
                /\ Len(traffic_data) = 3
                /\ {<<traffic_data[i].hour, traffic_data[i].vehicle_count>> :
                       i \in 1..3} = {<<7, 100>>, <<7, 200>>, <<8, 50>>})
                  => /\ Len(hourly) = 2
                     /\ hourly[1].hour = 7 /\ hourly[1].avg_vehicles = 1500
                     /\ hourly[1].count = 2
                     /\ hourly[2].hour = 8 /\ hourly[2].avg_vehicles = 500
                     /\ hourly[2].count = 1

\* The pattern of all rows was asked on the rows 100 and 200 at hour 7 and 50
\* at hour 8, and the answer has the rows 7 -> 150.0 / 2 and 8 -> 50.0 / 1.
C11_Witness ==
    /\ result.op = "get_hourly_pattern"
    /\ result.arg[1] = NoLocation
    /\ {<<traffic_data[i].hour, traffic_data[i].vehicle_count>> :
           i \in 1..Len(traffic_data)} = {<<7, 100>>, <<7, 200>>, <<8, 50>>}
    /\ Len(traffic_data) = 3
    /\ Len(result.value) = 2
    /\ result.value[1].avg_vehicles = 1500 /\ result.value[1].count = 2
    /\ result.value[2].avg_vehicles = 500 /\ result.value[2].count = 1

---------------------------------------------------------------------------
(* SpecComparison: get_location_comparison asked on stored datasets *)

\* The vehicle counts of the stored rows; 600 is classified Macet
ComparisonCounts == {100, 300, 600}

\* Ten rows of the first location, the third and the seventh of them Macet,
\* and two rows of little traffic of the second
GridlockExample ==
    [i \in 1..12 |->
        IF i <= 10
        THEN StoredRow(i, SlotTimestamp(8, i), LOCATIONS[1],
                       IF i \in {3, 7} THEN 500 + i ELSE 100 + i, 10)
        ELSE StoredRow(i, SlotTimestamp(8, i), LOCATIONS[2], 40 + i, 10)]

InitComparison ==
    /\ \/ \E n \in 0..MaxRows :
          \E places \in [1..n -> LocationSet],
             counts \in [1..n -> ComparisonCounts] :
             traffic_data =
                 [i \in 1..n |->
                     StoredRow(i, SlotTimestamp(8, i), places[i], counts[i], 10)]
       \/ traffic_data = GridlockExample
    /\ InitStored

NextComparison ==
    \/ GetLocationComparison
    \/ TakeAnswer

SpecComparison == InitComparison /\ [][NextComparison]_vars

\* C12: get_location_comparison returns one row per distinct location of the
\* traffic table; its total_records is the number of rows of the location,
\* its macet_count the number of those whose condition is Macet, its macet_pct
\* macet_count / total_records x 100 to one decimal (2 of 10 -> 20.0), its
\* avg_vehicles the mean vehicle_count to one decimal, and the rows are in
\* descending order of avg_vehicles.
C12_LocationComparison ==
    result.op = "get_location_comparison" =>
        LET comparison == result.value
            present == {traffic_data[i].location : i \in 1..Len(traffic_data)}
            of(l) == SelectSeq(traffic_data, LAMBDA row : row.location = l)
            macet(l) == Len(SelectSeq(of(l), LAMBDA row : row.condition = "Macet"))
            total(l) == Sum([i \in 1..Len(of(l)) |-> of(l)[i].vehicle_count])
        IN  /\ Len(comparison) = Cardinality(present)
            /\ {comparison[k].location : k \in 1..Len(comparison)} = present
            /\ \A k \in 1..Len(comparison) :
                  LET l == comparison[k].location
                      n == Len(of(l))
                      dpct == comparison[k].macet_pct * n - 1000 * macet(l)
                      davg == comparison[k].avg_vehicles * n - 10 * total(l)
                  IN  /\ comparison[k].total_records = n
                      /\ comparison[k].macet_count = macet(l)
                      /\ 2 * dpct <= n /\ 0 - 2 * dpct <= n
                      /\ 2 * davg <= n /\ 0 - 2 * davg <= n
                      /\ (n = 10 /\ macet(l) = 2) => comparison[k].macet_pct = 200
            /\ \A k, m \in 1..Len(comparison) :
                  k < m => comparison[k].avg_vehicles >= comparison[m].avg_vehicles

\* The comparison was asked with ten rows of one location stored, two of them
\* Macet: that location comes first, ahead of the alphabetically earlier
\* one, with 20.0 percent.
C12_Witness ==
    /\ result.op = "get_location_comparison"
    /\ Len(result.value) = 2
    /\ result.value[1].location = LOCATIONS[1]
    /\ result.value[1].total_records = 10
    /\ result.value[1].macet_count = 2
    /\ result.value[1].macet_pct = 200
    /\ result.value[1].avg_vehicles > result.value[2].avg_vehicles

---------------------------------------------------------------------------
(* predict_traffic, asked between the cycles and inserts of SpecAnalytics *)

\* C13: for every location and target hour predict_traffic answers with an
\* error payload when no stored row matches both; otherwise, for a slice of
\* n >= 1 rows (a single row included), with a prediction, neither an error
\* nor an exception, whose samples_used is n, whose predicted_vehicles_avg is
\* int(mean), whose predicted_vehicles_min is max(0, int(mean - std)) and
\* predicted_vehicles_max int(mean + std), and
\* 0 <= predicted_vehicles_min <= predicted_vehicles_avg
\* <= predicted_vehicles_max.
C13_PredictTraffic ==
    result.op = "predict_traffic" =>
        LET location == result.arg[1]
            target_hour == result.arg[2]
            slice == SelectSeq(traffic_data,
                         LAMBDA row : row.location = location
                                          /\ row.hour = target_hour)
            n == Len(slice)
            S == Sum([i \in 1..n |-> slice[i].vehicle_count])
            Q == Sum([i \in 1..n |-> slice[i].vehicle_count
                                         * slice[i].vehicle_count])
            V == n * Q - S * S
            v == result.value
            \* k <= mean - std, and k <= mean + std
            below(k) == k * n <= S /\ (S - k * n) * (S - k * n) * (n - 1) >= n * V
            upto(k) ==
                k * n <= S \/ (k * n - S) * (k * n - S) * (n - 1) <= n * V
        IN  IF n = 0 THEN "error" \in DOMAIN v
            ELSE /\ "error" \notin DOMAIN v
                 /\ "raised" \notin DOMAIN v
                 /\ v.samples_used = n
                 /\ v.predicted_vehicles_avg = S \div n
                 /\ 0 <= v.predicted_vehicles_min
                 /\ v.predicted_vehicles_min <= v.predicted_vehicles_avg
                 /\ v.predicted_vehicles_avg <= v.predicted_vehicles_max
                 /\ n >= 2 =>
                       /\ \/ v.predicted_vehicles_min = 0 /\ ~below(1)
                          \/ /\ below(v.predicted_vehicles_min)
                             /\ ~below(v.predicted_vehicles_min + 1)
                       /\ upto(v.predicted_vehicles_max)
                       /\ ~upto(v.predicted_vehicles_max + 1)

---------------------------------------------------------------------------
(* SpecCorrelation: get_rain_correlation asked on stored datasets, and      *)
(* _interpret_correlation called on coefficients of its own                 *)

\* The coefficients _interpret_correlation is called with, in hundredths:
\* every tenth from -1 to 1 and the neighbours of the band limits
CoefficientGrid ==
    {10 * k : k \in -10..10} \cup {19, 21, 39, 41, 69, 71}

\* The float c / 100 as a coefficient
Coefficient(c) == [nan |-> FALSE, num |-> c, vx |-> 100, vy |-> 100]

\* The rain factors of the stored rows
CorrelationFactors == {10, 13, 20}

\* How vehicle_count follows rain_factor in a stored dataset
Shapes == {"rising", "rising steeply", "falling", "level", "bent"}

\* The vehicle_count of a stored row of rain_factor factor
ShapeCount(shape, factor) ==
    CASE shape = "rising" -> 10 * factor
      [] shape = "rising steeply" -> 30 * factor - 250
      [] shape = "falling" -> 400 - 10 * factor
      [] shape = "level" -> 150
      [] OTHER -> IF factor = 13 THEN 160 ELSE 110 + factor

InitCorrelation ==
    /\ \E n \in 0..MaxRows :
       \E factors \in [1..n -> CorrelationFactors], shape \in Shapes :
          traffic_data =
              [i \in 1..n |->
                  StoredRow(i, SlotTimestamp(8, i), RowLocation(i),
                            ShapeCount(shape, factors[i]), factors[i])]
    /\ InitStored

\* _interpret_correlation(c) is called
InterpretCorrelation ==
    /\ QueryReady
    /\ \E c \in CoefficientGrid :
          Answer("_interpret_correlation", <<c>>,
                 _interpret_correlation(Coefficient(c)))

NextCorrelation ==
    \/ GetRainCorrelation
    \/ InterpretCorrelation
    \/ TakeAnswer

SpecCorrelation == InitCorrelation /\ [][NextCorrelation]_vars

\* The stored rows lie on one line along which vehicle_count rises (sign 1)
\* or falls (sign -1) with rain_factor
OnALine(rows, sign) ==
    \E i, j \in 1..Len(rows) :
        /\ rows[i].rain_factor < rows[j].rain_factor
        /\ sign * (rows[j].vehicle_count - rows[i].vehicle_count) > 0
        /\ \A k \in 1..Len(rows) :
              (rows[k].vehicle_count - rows[i].vehicle_count)
                      * (rows[j].rain_factor - rows[i].rain_factor)
                  = (rows[j].vehicle_count - rows[i].vehicle_count)
                      * (rows[k].rain_factor - rows[i].rain_factor)

\* C14: the interpretation follows fixed bands of the coefficient c:
\* c >= 0.7 strong positive, 0.4 <= c < 0.7 moderate positive,
\* 0.2 <= c < 0.4 weak positive, and every c < 0.2, every negative c down to
\* -1 included, negligible; so a dataset whose vehicle_count is an increasing
\* linear function of rain_factor is interpreted as strong positive (and one
\* where it is a decreasing linear function as negligible).
C14_InterpretationBands ==
    /\ result.op = "_interpret_correlation" =>
          LET c == result.arg[1]
          IN  /\ c >= 70 => result.value =
                    "Korelasi Kuat Positif: Hujan sangat mempengaruhi kemacetan"
              /\ (40 <= c /\ c < 70) => result.value =
                    "Korelasi Sedang Positif: Hujan cukup mempengaruhi kemacetan"
              /\ (20 <= c /\ c < 40) => result.value =
                    "Korelasi Lemah Positif: Hujan sedikit mempengaruhi kemacetan"
              /\ c < 20 => result.value =
                    "Korelasi Sangat Lemah: Hujan tidak terlalu mempengaruhi"
    /\ (result.op = "get_rain_correlation" /\ traffic_data # <<>>) =>
          /\ OnALine(traffic_data, 1) => result.value.interpretation =
                "Korelasi Kuat Positif: Hujan sangat mempengaruhi kemacetan"
          /\ OnALine(traffic_data, -1) => result.value.interpretation =
                "Korelasi Sangat Lemah: Hujan tidak terlalu mempengaruhi"

\* The correlation was asked on three or more rows whose vehicle_count rises
\* along a line over three rain factors, and was interpreted as strong.
C14_Witness ==
    /\ result.op = "get_rain_correlation"
    /\ Len(traffic_data) >= 3
    /\ {traffic_data[i].rain_factor : i \in 1..Len(traffic_data)}
           = CorrelationFactors
    /\ OnALine(traffic_data, 1)
    /\ result.value.interpretation =
           "Korelasi Kuat Positif: Hujan sangat mempengaruhi kemacetan"

---------------------------------------------------------------------------
(* SpecPrediction: predict_traffic asked on stored datasets whose counts    *)
(* reach the declared upper bound of the top band                           *)

\* The vehicle counts of the stored rows: bounds of bands of
\* TRAFFIC_THRESHOLDS and their neighbours
PredictionCounts == {99, 100, 500, 9999, 10000}

\* Up to two rows of the first location at 17 o'clock
InitPrediction ==
    /\ \E n \in 0..2 : \E counts \in [1..n -> PredictionCounts] :
          traffic_data =
              [i \in 1..n |->
                  StoredRow(i, SlotTimestamp(17, i), LOCATIONS[1], counts[i], 10)]
    /\ InitStored

NextPrediction ==
    \/ PredictTraffic
    \/ TakeAnswer

SpecPrediction == InitPrediction /\ [][NextPrediction]_vars

\* predict_traffic has answered with a prediction
Predicted ==
    /\ result.op = "predict_traffic"
    /\ "predicted_condition" \in DOMAIN result.value

\* C24: the predicted_condition of predict_traffic is the label that
\* get_traffic_condition gives to predicted_vehicles_avg, for every
\* predicted_vehicles_avg >= 0, those at or above the upper bound 9999 of the
\* top band included.
C24_PredictedConditionIsClassifier ==
    Predicted =>
        result.value.predicted_condition
            = get_traffic_condition(result.value.predicted_vehicles_avg)

\* The same for the averages below 9999
C24_PredictedConditionBelowTopBound ==
    (Predicted /\ result.value.predicted_vehicles_avg < 9999) =>
        result.value.predicted_condition
            = get_traffic_condition(result.value.predicted_vehicles_avg)

---------------------------------------------------------------------------
(* SpecWeekdays: get_weekday_vs_weekend asked on stored datasets *)

\* The formatted times of the stored rows: Wednesday 12:00:00, Friday
\* 23:59:59, Saturday 00:00:00, Sunday 23:59:59 and Monday 00:00:00
WeekdayStamps ==
    {2 * SecondsPerDay + 12 * 3600, 5 * SecondsPerDay - 1, 5 * SecondsPerDay,
     7 * SecondsPerDay - 1, 7 * SecondsPerDay}

\* The vehicle counts of the stored rows
WeekdayCounts == {100, 205}

InitWeekdays ==
    /\ \E n \in 0..MaxRows :
       \E stamps \in [1..n -> WeekdayStamps], counts \in [1..n -> WeekdayCounts] :
          traffic_data =
              [i \in 1..n |->
                  StoredRow(i, stamps[i], RowLocation(i), counts[i], 10)]
    /\ InitStored

NextWeekdays ==
    \/ GetWeekdayVsWeekend
    \/ TakeAnswer

SpecWeekdays == InitWeekdays /\ [][NextWeekdays]_vars

\* The stored rows whose timestamp falls on one of the days of the week days,
\* 0 being Monday
RowsOnDays(days) ==
    SelectSeq(traffic_data,
              LAMBDA row : (row.timestamp \div SecondsPerDay) % 7 \in days)

\* The partition part reports the rows rows: their number and, in tenths, a
\* mean of the counts and of the speeds rounded to one decimal, or zeros for
\* no rows.
ReportsRows(part, rows) ==
    /\ part.total_records = Len(rows)
    /\ rows = <<>> => part.avg_vehicles = 0 /\ part.avg_speed = 0
    /\ rows # <<>> =>
          LET n == Len(rows)
              S == Sum(Column(rows, "vehicle_count"))
              T == Sum(Column(rows, "speed_kmh"))
          IN  /\ 2 * (n * part.avg_vehicles - 10 * S) \in (0 - n)..n
              /\ 2 * (n * part.avg_speed - T) \in (0 - n)..n

\* C26: get_weekday_vs_weekend puts every row in exactly one partition by
\* the day of the week of its timestamp, Monday to Friday in weekday and
\* Saturday and Sunday in weekend, so that the two total_records add up to
\* the number of rows; and on a dataset that is not empty a partition without
\* rows reports avg_vehicles 0, avg_speed 0 and total_records 0, not an error.
C26_WeekdayWeekendPartition ==
    result.op = "get_weekday_vs_weekend" =>
        IF traffic_data = <<>> THEN "error" \in DOMAIN result.value
        ELSE /\ DOMAIN result.value = {"weekday", "weekend"}
             /\ ReportsRows(result.value.weekday, RowsOnDays(0..4))
             /\ ReportsRows(result.value.weekend, RowsOnDays({5, 6}))
             /\ result.value.weekday.total_records
                    + result.value.weekend.total_records = Len(traffic_data)

\* The comparison was asked on rows of Saturday 00:00:00 and Sunday 23:59:59
\* alone: the weekday partition is empty and reports zeros.
C26_Witness ==
    /\ result.op = "get_weekday_vs_weekend"
    /\ {traffic_data[i].timestamp : i \in 1..Len(traffic_data)}
           = {5 * SecondsPerDay, 7 * SecondsPerDay - 1}
    /\ result.value.weekday.total_records = 0
    /\ result.value.weekday.avg_vehicles = 0
    /\ result.value.weekend.total_records = Len(traffic_data)
    /\ result.value.weekend.avg_vehicles > 0

---------------------------------------------------------------------------
(* SpecRainLabels: get_rain_correlation asked on stored datasets with all    *)
(* the rain factors of RAIN_IMPACT                                           *)

InitRainLabels ==
    /\ \E n \in 0..MaxRows :
       \E cats \in [1..n -> SeqRange(RainCategories)] :
          traffic_data =
              [i \in 1..n |->
                  StoredRow(i, SlotTimestamp(8, i), RowLocation(i),
                            10 * RAIN_IMPACT[cats[i]], RAIN_IMPACT[cats[i]])]
    /\ InitStored

NextRainLabels ==
    \/ GetRainCorrelation
    \/ TakeAnswer

SpecRainLabels == InitRainLabels /\ [][NextRainLabels]_vars

\* The label of the view for a rain category of the weather
LabelOfCategory(c) ==
    CASE c = "none" -> "Tidak Hujan"
      [] c = "light" -> "Hujan Ringan"
      [] c = "moderate" -> "Hujan Sedang"
      [] c = "heavy" -> "Hujan Lebat"
      [] c = "extreme" -> "Hujan Ekstrem"

\* The rain factors, in tenths, that the thresholds give the label of c
FactorsOfCategory(c) ==
    CASE c = "none" -> 0..10
      [] c = "light" -> 11..13
      [] c = "moderate" -> 14..16
      [] c = "heavy" -> 17..18
      [] c = "extreme" -> 19..(MaxRainFactor + 10)

\* The number of rows that stats reports for the label of c
ReportedCount(stats, c) ==
    Sum([k \in 1..Len(stats) |->
            IF stats[k].rain_category = LabelOfCategory(c)
            THEN stats[k].count ELSE 0])

\* C27: the rain-correlation view gives every row exactly one of the five
\* rain labels by the thresholds on rain_factor (<= 1.0 none, <= 1.3 light,
\* <= 1.6 moderate, <= 1.8 heavy, otherwise extreme): per label it counts the
\* rows whose factor lies in that band, each label has at most one line, and
\* the counts add up to the number of rows; and the label given to
\* RAIN_IMPACT[c] is the label of c, for every rain category c.
C27_RainLabels ==
    /\ \A c \in SeqRange(RainCategories) :
          /\ categorize_rain(RAIN_IMPACT[c]) = LabelOfCategory(c)
          /\ \A f \in FactorsOfCategory(c) :
                categorize_rain(f) = LabelOfCategory(c)
    /\ (result.op = "get_rain_correlation" /\ traffic_data # <<>>) =>
          LET stats == result.value.stats_by_category
          IN  /\ \A c \in SeqRange(RainCategories) :
                    ReportedCount(stats, c)
                        = Cardinality({i \in 1..Len(traffic_data) :
                              traffic_data[i].rain_factor
                                  \in FactorsOfCategory(c)})
              /\ \A k, m \in 1..Len(stats) :
                    stats[k].rain_category = stats[m].rain_category => k = m
              /\ \A k \in 1..Len(stats) :
                    /\ stats[k].count > 0
                    /\ \E c \in SeqRange(RainCategories) :
                          stats[k].rain_category = LabelOfCategory(c)
              /\ Sum([k \in 1..Len(stats) |-> stats[k].count])
                     = Len(traffic_data)

\* The view was asked on five rows, one of each rain category, and has five
\* lines of one row each.
C27_Witness ==
    /\ result.op = "get_rain_correlation"
    /\ {traffic_data[i].rain_factor : i \in 1..Len(traffic_data)}
           = {10, 13, 16, 18, 20}
    /\ Len(traffic_data) = 5
    /\ Len(result.value.stats_by_category) = 5
    /\ \A k \in 1..5 : result.value.stats_by_category[k].count = 1

---------------------------------------------------------------------------
(* app.py: initialize, run by the script of every browser session.  The     *)
(* sessions run in threads of one process and share the database; a        *)
(* session's call of generate_historical_data is interleaved, day by day    *)
(* and write by write, with the other session's.                             *)

MaxCalls == 2                \* calls of initialize a session makes: 0..MaxCalls

\* HISTORICAL_DAYS of the installations: with the locations in use one
\* backfill stores 1000 rows or more
SessionDays == {2, 3}

\* The session s goes on with the session state and locals rec.
SetSession(s, rec) == sessions' = [sessions EXCEPT ![s] = rec]

\* initialize() is called by the script of session s: nothing is done when
\* "initialized" is in st.session_state; otherwise the traffic rows are
\* counted and, below 1000, generate_historical_data is called and runs up
\* to its day loop; at 1000 rows or more the session is marked initialized.
Initialize(s) ==
    /\ sessions[s].pc = "none"
    /\ sessions[s].calls < MaxCalls
    /\ LET called == [sessions[s] EXCEPT !.calls = @ + 1]
       IN  IF called.initialized THEN SetSession(s, called)
           ELSE IF get_traffic_count < 1000
           THEN SetSession(s, [called EXCEPT
                                   !.pc = "days",
                                   !.backfills = @ + 1,
                                   !.g_now = now,
                                   !.current_date =
                                       now - historical_days * TicksPerDay,
                                   !.traffic_batch = <<>>,
                                   !.weather_batch = <<>>,
                                   !.count = 0])
           ELSE SetSession(s, [called EXCEPT !.initialized = TRUE])
    /\ UNCHANGED <<call, now, rng, dbVars, engineVars, result, genVars>>

\* One iteration of the day loop of the run of session s
SessionGenerateDay(s) ==
    /\ sessions[s].pc = "days"
    /\ sessions[s].current_date < sessions[s].g_now
    /\ \E walk \in {WalkDay(DayBegin(sessions[s].current_date, rng),
                            EndOfDay(sessions[s].current_date),
                            sessions[s].g_now,
                            Weekday(sessions[s].current_date))} :
       \E batch \in {sessions[s].traffic_batch \o walk.traffic} :
          /\ rng' = walk.rng
          /\ IF Len(batch) > FlushThreshold
             THEN insert_traffic_data(batch)
             ELSE UNCHANGED <<traffic_data, traffic_seq>>
          /\ SetSession(s, [sessions[s] EXCEPT
                                !.weather_batch = @ \o walk.weather,
                                !.count = @ + Len(walk.traffic),
                                !.traffic_batch =
                                    IF Len(batch) > FlushThreshold
                                    THEN <<>> ELSE batch,
                                !.current_date = @ + TicksPerDay])
    /\ UNCHANGED <<call, now, weather_data, weather_seq, engineVars, result,
                   genVars>>

\* The day loop of the run of session s ends: what is left is inserted.
SessionFlushRemainder(s) ==
    /\ sessions[s].pc = "days"
    /\ ~(sessions[s].current_date < sessions[s].g_now)
    /\ insert_traffic_data(sessions[s].traffic_batch)
    /\ SetSession(s, [sessions[s] EXCEPT !.pc = "weather", !.g_i = 0])
    /\ UNCHANGED <<call, now, rng, weather_data, weather_seq, engineVars,
                   result, genVars>>

\* One weather chunk of the run of session s is written.
SessionInsertWeatherChunk(s) ==
    /\ sessions[s].pc = "weather"
    /\ sessions[s].g_i < Len(sessions[s].weather_batch)
    /\ insert_weather_list(
           SubSeq(sessions[s].weather_batch, sessions[s].g_i + 1,
                  Min(sessions[s].g_i + batch_size,
                      Len(sessions[s].weather_batch))))
    /\ SetSession(s, [sessions[s] EXCEPT !.g_i = @ + batch_size])
    /\ UNCHANGED <<call, now, rng, traffic_data, traffic_seq, engineVars,
                   result, genVars>>

\* generate_historical_data returns to initialize, which sets
\* st.session_state["initialized"] and returns; the locals are gone.
SessionInitialized(s) ==
    /\ sessions[s].pc = "weather"
    /\ ~(sessions[s].g_i < Len(sessions[s].weather_batch))
    /\ SetSession(s, [NewSession EXCEPT
                          !.initialized = TRUE,
                          !.calls = sessions[s].calls,
                          !.backfills = sessions[s].backfills])
    /\ UNCHANGED <<call, now, rng, dbVars, engineVars, result, genVars>>

---------------------------------------------------------------------------
(* SpecSessions: two sessions open the dashboard on an empty database *)

InitSessions ==
    /\ call = NoCall
    /\ now \in {BackfillDay * TicksPerDay + t : t \in TimesOfDay}
    /\ rng \in Seeds
    /\ InitDb
    /\ InitEngine
    /\ result = NoResult
    /\ historical_days \in SessionDays
    /\ InitGen
    /\ InitApp

NextSessions ==
    \/ \E s \in Sessions : Initialize(s)
    \/ \E s \in Sessions : SessionGenerateDay(s)
    \/ \E s \in Sessions : SessionFlushRemainder(s)
    \/ \E s \in Sessions : SessionInsertWeatherChunk(s)
    \/ \E s \in Sessions : SessionInitialized(s)

SpecSessions == InitSessions /\ [][NextSessions]_vars

\* The traffic rows of one backfill
OneBackfill ==
    historical_days * ((24 * 60) \div DATA_INTERVAL_MINUTES) * Len(LOCATIONS)

\* Within a session initialize works on its first call only, and
\* generate_historical_data is started only on a count below 1000.
InitializeGuards ==
    \A s \in Sessions :
        /\ sessions[s].initialized =>
              /\ sessions'[s].initialized
              /\ sessions'[s].pc = "none"
              /\ sessions'[s].backfills = sessions[s].backfills
              /\ sessions'[s].traffic_batch = <<>>
        /\ sessions'[s].backfills > sessions[s].backfills =>
              /\ get_traffic_count < 1000
              /\ sessions[s].calls = 0
        /\ sessions'[s].backfills <= 1

\* The store holds the rows of one backfill at most, and one session at most
\* has started one; stated of the state a step leads to.
BackfilledOnce ==
    /\ Len(traffic_data') <= OneBackfill
    /\ \A s, t \in Sessions :
          (sessions'[s].backfills > 0 /\ sessions'[t].backfills > 0) => s = t

\* C29: the initialization of the dashboard runs the backfill at most once
\* per database: within a session initialize does its work on the first
\* call only; and over any number of sessions, those that start while the
\* backfill of another session is running included,
\* generate_historical_data is started only when the traffic table holds
\* fewer than 1000 rows, so that the table never holds the
\* historical_generated rows of two backfills.
C29_BackfillAtMostOnce == [][InitializeGuards /\ BackfilledOnce]_vars

\* The guards of initialize alone
C29_InitializeGuards == [][InitializeGuards]_vars

===========================================================================
